---- MODULE Spec2Model ----
(***************************************************************************)
(* Circular arrays of pythonic_fp.circulararray: the auto-resizing CA      *)
(* (circulararray/auto.py) and the fixed-capacity CAF                      *)
(* (circulararray/fixed.py).  One buffer instance is modelled; `kind`      *)
(* says which class it is.  The slot array is a sequence whose element     *)
(* k+1 is the Python slot k.                                               *)
(***************************************************************************)
EXTENDS Integers, Sequences, FiniteSets, TLC

VARIABLES
    kind,    \* "CA" or "CAF": the class of the instance
    data,    \* self._data
    cnt,     \* self._cnt
    cap,     \* self._cap
    front,   \* self._front
    rear,    \* self._rear
    ref,     \* reference double-ended sequence given the same operations
    pre,     \* the instance's fields before the last operation
    ret,     \* the last operation: name, arguments, returned value, raised error,
             \* and the reference sequence it was applied to
    gen,     \* the generator object of a traversal: its frame and what it yielded
    seen,    \* list(self) when the traversal was requested / when it took its copy
    gen2,    \* the generator object of a second traversal of the same instance,
             \* with list(self) when it took its copy
    grown,   \* the capacity the last growth started from, and the pushes since
    twin     \* a second instance, built from this one, and the list objects that
             \* are the slot arrays of the two

vars == <<kind, data, cnt, cap, front, rear, ref, pre, ret, gen, seen, gen2, grown, twin>>

(***************************************************************************)
(* Bounds                                                                  *)
(***************************************************************************)
MaxLen == 4        \* pushes are issued while the count is below this
MaxInit == 2       \* longest iterable handed to a constructor
MaxCapArg == 4     \* largest capacity argument handed to CAF(...)
MaxN == 3          \* largest n / maximum handed to rotl, rotr, poplt, poprt
MaxIterLen == 2    \* longest buffer mutated while a traversal is in progress

(***************************************************************************)
(* Values                                                                  *)
(***************************************************************************)
None == 0                       \* Python's None, also the empty-slot marker
Values == {None, 1, 2}          \* what callers push
Default == 9                    \* the default handed to popld / poprd
False == 10                     \* Python's False and True among the returned values
True == 11

NoError == "none"
ValueError == "ValueError"
IndexError == "IndexError"
TypeError == "TypeError"

(***************************************************************************)
(* Python list helpers (0-based slots over 1-based sequences)              *)
(***************************************************************************)
At(d, i) == d[i + 1]

Put(d, i, v) == [d EXCEPT ![i + 1] = v]

\* d[lo:hi] for 0 <= lo, hi <= len(d)
Slice(d, lo, hi) == SubSeq(d, lo + 1, hi)

\* [None] * n
Nones(n) == [k \in 1..n |-> None]

Max(a, b) == IF a >= b THEN a ELSE b

Min(a, b) == IF a <= b THEN a ELSE b

Reverse(s) == [k \in 1..Len(s) |-> s[Len(s) + 1 - k]]

SeqsUpTo(S, n) == UNION {[1..k -> S] : k \in 0..n}

(***************************************************************************)
(* An instance as a record, and the outcome of a method call               *)
(***************************************************************************)
Buf(d, n, c, f, r) == [data |-> d, cnt |-> n, cap |-> c, front |-> f, rear |-> r]

Self == Buf(data, cnt, cap, front, rear)

\* an object the caller holds: who it is, its class, and its fields if it is an
\* instance of CA or CAF
Obj(id, cls, b) == [id |-> id, cls |-> cls, b |-> b]

NoObj == Obj("none", "NoneType", Buf(<<>>, 0, 0, 0, 0))

\* msg is the text of the exception, in the pieces the code joins; text is a
\* returned string, in pieces; new is a returned instance
Out(b, val, vals, err) ==
    [b |-> b, val |-> val, vals |-> vals, err |-> err, msg |-> <<>>, text |-> <<>>,
     new |-> NoObj]

Ok(b) == Out(b, None, <<>>, NoError)

Returns(b, v) == Out(b, v, <<>>, NoError)

Raises(b, e) == Out(b, None, <<>>, e)

RaisesMsg(b, e, m) == [Raises(b, e) EXCEPT !.msg = m]

\* the texts of the index errors of __getitem__ and __setitem__
EmptyGet(cls) == <<"Trying to get a value from an empty " \o cls \o ".">>

EmptySet(cls) == <<"Trying to index into an empty " \o cls \o ".">>

OutOfBounds(idx, count, doing, cls) ==
    <<"Out of bounds: ", "index = ", idx, " not between ", 0 - count, " and ", count - 1,
      " ", "while " \o doing \o " value from a " \o cls \o ".">>

(***************************************************************************)
(* CA: construction and capacity transitions                               *)
(***************************************************************************)
CA_init(ds) ==
    LET d == <<None>> \o ds \o <<None>>
        c == Len(d)
    IN  IF c = 2
        THEN Buf(d, c - 2, c, 0, 1)
        ELSE Buf(d, c - 2, c, 1, c - 2)

\* growth that appends the new slots whatever the layout
CA_double_storage_capacity_appends(b) ==
    [b EXCEPT !.data = b.data \o Nones(b.cap), !.cap = b.cap * 2]

\* the wrapped case inserts the new slots but leaves the front where it was
CA_double_storage_capacity_front_kept(b) ==
    IF b.front <= b.rear
    THEN [b EXCEPT !.data = b.data \o Nones(b.cap),
                   !.cap = b.cap * 2]
    ELSE [b EXCEPT !.data = Slice(b.data, 0, b.front) \o Nones(b.cap)
                              \o Slice(b.data, b.front, Len(b.data)),
                   !.cap = 2 * b.cap]

\* growth that lays the elements out from slot 0 in logical order
CA_double_storage_capacity_unrolls(b) ==
    IF b.front <= b.rear
    THEN [b EXCEPT !.data = b.data \o Nones(b.cap),
                   !.cap = b.cap * 2]
    ELSE [b EXCEPT !.data = Slice(b.data, b.front, Len(b.data))
                              \o Slice(b.data, 0, b.front) \o Nones(b.cap),
                   !.front = 0,
                   !.rear = b.cap - 1,
                   !.cap = 2 * b.cap]

CA_double_storage_capacity(b) ==
    IF b.front <= b.rear
    THEN [b EXCEPT !.data = b.data \o Nones(b.cap),
                   !.cap = b.cap * 2]
    ELSE [b EXCEPT !.data = Slice(b.data, 0, b.front) \o Nones(b.cap)
                              \o Slice(b.data, b.front, Len(b.data)),
                   !.front = b.front + b.cap,
                   !.cap = 2 * b.cap]

\* two or more elements are always copied as if the live region wrapped
CA_compact_storage_capacity_always_wrapped(b) ==
    CASE b.cnt = 0 -> Buf(<<None, None>>, b.cnt, 2, 0, 1)
      [] b.cnt = 1 -> Buf(<<None, At(b.data, b.front), None>>, b.cnt, 3, 1, 1)
      [] OTHER -> Buf(<<None>> \o Slice(b.data, b.front, Len(b.data))
                          \o Slice(b.data, 0, b.rear + 1) \o <<None>>,
                      b.cnt, b.cnt + 2, 1, b.cnt)

\* an empty buffer keeps the slots it has
CA_compact_storage_capacity_empty_kept(b) ==
    CASE b.cnt = 0 -> Buf(Nones(b.cap), b.cnt, b.cap, 0, b.cap - 1)
      [] b.cnt = 1 -> Buf(<<None, At(b.data, b.front), None>>, b.cnt, 3, 1, 1)
      [] OTHER ->
            IF b.front <= b.rear
            THEN Buf(<<None>> \o Slice(b.data, b.front, b.rear + 1) \o <<None>>,
                     b.cnt, b.cnt + 2, 1, b.cnt)
            ELSE Buf(<<None>> \o Slice(b.data, b.front, Len(b.data))
                         \o Slice(b.data, 0, b.rear + 1) \o <<None>>,
                     b.cnt, b.cnt + 2, 1, b.cnt)

CA_compact_storage_capacity(b) ==
    CASE b.cnt = 0 -> Buf(<<None, None>>, b.cnt, 2, 0, 1)
      [] b.cnt = 1 -> Buf(<<None, At(b.data, b.front), None>>, b.cnt, 3, 1, 1)
      [] OTHER ->
            IF b.front <= b.rear
            THEN Buf(<<None>> \o Slice(b.data, b.front, b.rear + 1) \o <<None>>,
                     b.cnt, b.cnt + 2, 1, b.cnt)
            ELSE Buf(<<None>> \o Slice(b.data, b.front, Len(b.data))
                         \o Slice(b.data, 0, b.rear + 1) \o <<None>>,
                     b.cnt, b.cnt + 2, 1, b.cnt)

(***************************************************************************)
(* CA: push and pop                                                        *)
(***************************************************************************)
CA_pushl1(b, d) ==
    LET g == IF b.cnt = b.cap THEN CA_double_storage_capacity(b) ELSE b
        f == (g.front - 1) % g.cap
    IN  [g EXCEPT !.front = f, !.data = Put(g.data, f, d), !.cnt = g.cnt + 1]

\* the slot array is doubled one push before it is full
CA_pushr1_grows_early(b, d) ==
    LET g == IF b.cnt >= b.cap - 1 THEN CA_double_storage_capacity(b) ELSE b
        r == (g.rear + 1) % g.cap
    IN  [g EXCEPT !.rear = r, !.data = Put(g.data, r, d), !.cnt = g.cnt + 1]

CA_pushr1(b, d) ==
    LET g == IF b.cnt = b.cap THEN CA_double_storage_capacity(b) ELSE b
        r == (g.rear + 1) % g.cap
    IN  [g EXCEPT !.rear = r, !.data = Put(g.data, r, d), !.cnt = g.cnt + 1]

\* the vacated slot keeps the value popped from it
CA_popl_slot_kept(b) ==
    IF b.cnt > 1
    THEN Returns([b EXCEPT !.front = (b.front + 1) % b.cap,
                           !.cnt = b.cnt - 1],
                 At(b.data, b.front))
    ELSE IF b.cnt = 1
    THEN Returns([b EXCEPT !.cnt = 0,
                           !.front = 0,
                           !.rear = b.cap - 1],
                 At(b.data, b.front))
    ELSE Raises(b, ValueError)

CA_popl(b) ==
    IF b.cnt > 1
    THEN Returns([b EXCEPT !.data = Put(b.data, b.front, None),
                           !.front = (b.front + 1) % b.cap,
                           !.cnt = b.cnt - 1],
                 At(b.data, b.front))
    ELSE IF b.cnt = 1
    THEN Returns([b EXCEPT !.data = Put(b.data, b.front, None),
                           !.cnt = 0,
                           !.front = 0,
                           !.rear = b.cap - 1],
                 At(b.data, b.front))
    ELSE Raises(b, ValueError)

\* the empty case falls into the single-element branch
CA_popr_no_empty_test(b) ==
    IF b.cnt > 1
    THEN Returns([b EXCEPT !.data = Put(b.data, b.rear, None),
                           !.rear = (b.rear - 1) % b.cap,
                           !.cnt = b.cnt - 1],
                 At(b.data, b.rear))
    ELSE Returns([b EXCEPT !.data = Put(b.data, b.front, None),
                           !.cnt = 0,
                           !.front = 0,
                           !.rear = b.cap - 1],
                 At(b.data, b.front))

\* a None in the rear slot is taken for an empty buffer
CA_popr_none_is_empty(b) ==
    IF b.cnt = 0 \/ At(b.data, b.rear) = None
    THEN Raises(b, ValueError)
    ELSE IF b.cnt > 1
    THEN Returns([b EXCEPT !.data = Put(b.data, b.rear, None),
                           !.rear = (b.rear - 1) % b.cap,
                           !.cnt = b.cnt - 1],
                 At(b.data, b.rear))
    ELSE Returns([b EXCEPT !.data = Put(b.data, b.front, None),
                           !.cnt = 0,
                           !.front = 0,
                           !.rear = b.cap - 1],
                 At(b.data, b.front))

CA_popr(b) ==
    IF b.cnt > 1
    THEN Returns([b EXCEPT !.data = Put(b.data, b.rear, None),
                           !.rear = (b.rear - 1) % b.cap,
                           !.cnt = b.cnt - 1],
                 At(b.data, b.rear))
    ELSE IF b.cnt = 1
    THEN Returns([b EXCEPT !.data = Put(b.data, b.front, None),
                           !.cnt = 0,
                           !.front = 0,
                           !.rear = b.cap - 1],
                 At(b.data, b.front))
    ELSE Raises(b, ValueError)

(***************************************************************************)
(* CA: pushl and pushr with any number of arguments                        *)
(***************************************************************************)
\* the arguments are pushed from the last to the first
RECURSIVE CA_pushl_last_first(_, _)
CA_pushl_last_first(b, ds) ==
    IF ds = <<>>
    THEN b
    ELSE LET d == ds[Len(ds)]
             g == IF b.cnt = b.cap THEN CA_double_storage_capacity(b) ELSE b
             f == (g.front - 1) % g.cap
         IN  CA_pushl_last_first([g EXCEPT !.front = f, !.data = Put(g.data, f, d),
                                           !.cnt = g.cnt + 1],
                                 SubSeq(ds, 1, Len(ds) - 1))

\* for d in data: grow if full, then write d in front of the front
RECURSIVE CA_pushl(_, _)
CA_pushl(b, ds) ==
    IF ds = <<>>
    THEN b
    ELSE LET d == Head(ds)
             g == IF b.cnt = b.cap THEN CA_double_storage_capacity(b) ELSE b
             f == (g.front - 1) % g.cap
         IN  CA_pushl([g EXCEPT !.front = f, !.data = Put(g.data, f, d),
                                !.cnt = g.cnt + 1],
                      Tail(ds))

\* for d in data: grow if full, then write d behind the rear
RECURSIVE CA_pushr(_, _)
CA_pushr(b, ds) ==
    IF ds = <<>>
    THEN b
    ELSE LET d == Head(ds)
             g == IF b.cnt = b.cap THEN CA_double_storage_capacity(b) ELSE b
             r == (g.rear + 1) % g.cap
         IN  CA_pushr([g EXCEPT !.rear = r, !.data = Put(g.data, r, d),
                                !.cnt = g.cnt + 1],
                      Tail(ds))

(***************************************************************************)
(* CA: traversal run to completion (list(self), list(reversed(self)))      *)
(***************************************************************************)
RECURSIVE CA_iter_loop(_, _, _, _, _)
CA_iter_loop(current_state, capacity, rear_, position, acc) ==
    IF position # rear_
    THEN CA_iter_loop(current_state, capacity, rear_, (position + 1) % capacity,
                      Append(acc, At(current_state, position)))
    ELSE Append(acc, At(current_state, position))

CA_list(b) ==
    IF b.cnt > 0 THEN CA_iter_loop(b.data, b.cap, b.rear, b.front, <<>>) ELSE <<>>

RECURSIVE CA_reversed_loop(_, _, _, _, _)
CA_reversed_loop(current_state, capacity, front_, position, acc) ==
    IF position # front_
    THEN CA_reversed_loop(current_state, capacity, front_, (position - 1) % capacity,
                          Append(acc, At(current_state, position)))
    ELSE Append(acc, At(current_state, position))

\* the traversal ends one slot before the front
CA_list_reversed_front_missed(b) ==
    IF b.cnt > 1
    THEN CA_reversed_loop(b.data, b.cap, (b.front + 1) % b.cap, b.rear, <<>>)
    ELSE <<>>

CA_list_reversed(b) ==
    IF b.cnt > 0 THEN CA_reversed_loop(b.data, b.cap, b.front, b.rear, <<>>) ELSE <<>>

(***************************************************************************)
(* CA: defaulted and bulk pops, rotation                                   *)
(***************************************************************************)
\* a popped None is taken for "nothing popped"
CA_popld_none_is_missing(b, default) ==
    LET p == CA_popl(b)
    IN  IF p.err = ValueError \/ p.val = None THEN Returns(p.b, default) ELSE p

CA_popld(b, default) ==
    LET p == CA_popl(b)
    IN  IF p.err = ValueError THEN Returns(p.b, default) ELSE p

CA_poprd(b, default) ==
    LET p == CA_popr(b)
    IN  IF p.err = ValueError THEN Returns(p.b, default) ELSE p

RECURSIVE CA_poplt_loop(_, _, _)
CA_poplt_loop(b, maximum, ds) ==
    IF maximum > 0
    THEN LET p == CA_popl(b)
         IN  IF p.err = ValueError
             THEN Out(p.b, None, ds, NoError)
             ELSE CA_poplt_loop(p.b, maximum - 1, Append(ds, p.val))
    ELSE Out(b, None, ds, NoError)

\* each popped value is put at the head of ds
CA_poplt_prepends(b, maximum) ==
    [CA_poplt_loop(b, maximum, <<>>) EXCEPT !.vals = Reverse(@)]

CA_poplt(b, maximum) == CA_poplt_loop(b, maximum, <<>>)

RECURSIVE CA_poprt_loop(_, _, _)
CA_poprt_loop(b, maximum, ds) ==
    IF maximum > 0
    THEN LET p == CA_popr(b)
         IN  IF p.err = ValueError
             THEN Out(p.b, None, ds, NoError)
             ELSE CA_poprt_loop(p.b, maximum - 1, Append(ds, p.val))
    ELSE Out(b, None, ds, NoError)

CA_poprt(b, maximum) == CA_poprt_loop(b, maximum, <<>>)

RECURSIVE CA_rotl_loop(_, _)
CA_rotl_loop(b, n) ==
    IF n > 0
    THEN LET p == CA_popl(b)
         IN  IF p.err # NoError
             THEN Raises(p.b, p.err)
             ELSE CA_rotl_loop(CA_pushr1(p.b, p.val), n - 1)
    ELSE Ok(b)

CA_rotl(b, n) == IF b.cnt < 2 THEN Ok(b) ELSE CA_rotl_loop(b, n)

RECURSIVE CA_rotr_loop(_, _)
CA_rotr_loop(b, n) ==
    IF n > 0
    THEN LET p == CA_popr(b)
         IN  IF p.err # NoError
             THEN Raises(p.b, p.err)
             ELSE CA_rotr_loop(CA_pushl1(p.b, p.val), n - 1)
    ELSE Ok(b)

\* the loop runs one time too few
CA_rotr_one_short(b, n) == IF b.cnt < 2 THEN Ok(b) ELSE CA_rotr_loop(b, n - 1)

CA_rotr(b, n) == IF b.cnt < 2 THEN Ok(b) ELSE CA_rotr_loop(b, n)

(***************************************************************************)
(* CA: indexing, emptying, resizing                                        *)
(***************************************************************************)
\* negative indices are counted from the capacity instead of the count
CA_getitem_neg_from_capacity(b, idx) ==
    IF 0 <= idx /\ idx < b.cnt
    THEN Returns(b, At(b.data, (b.front + idx) % b.cap))
    ELSE IF -b.cnt <= idx /\ idx < 0
    THEN Returns(b, At(b.data, (b.front + b.cap + idx) % b.cap))
    ELSE IF b.cnt = 0
    THEN RaisesMsg(b, IndexError, EmptyGet("CA"))
    ELSE RaisesMsg(b, IndexError, OutOfBounds(idx, b.cnt, "getting", "CA"))

CA_getitem(b, idx) ==
    IF 0 <= idx /\ idx < b.cnt
    THEN Returns(b, At(b.data, (b.front + idx) % b.cap))
    ELSE IF -b.cnt <= idx /\ idx < 0
    THEN Returns(b, At(b.data, (b.front + b.cnt + idx) % b.cap))
    ELSE IF b.cnt = 0
    THEN RaisesMsg(b, IndexError, EmptyGet("CA"))
    ELSE RaisesMsg(b, IndexError, OutOfBounds(idx, b.cnt, "getting", "CA"))

\* a negative index is counted back from the front slot, not from past the rear
CA_setitem_neg_from_front(b, idx, val) ==
    IF 0 <= idx /\ idx < b.cnt
    THEN Ok([b EXCEPT !.data = Put(b.data, (b.front + idx) % b.cap, val)])
    ELSE IF -b.cnt <= idx /\ idx < 0
    THEN Ok([b EXCEPT !.data = Put(b.data, (b.front + idx) % b.cap, val)])
    ELSE IF b.cnt < 1
    THEN RaisesMsg(b, IndexError, EmptySet("CA"))
    ELSE RaisesMsg(b, IndexError, OutOfBounds(idx, b.cnt, "setting", "CA"))

CA_setitem(b, idx, val) ==
    IF 0 <= idx /\ idx < b.cnt
    THEN Ok([b EXCEPT !.data = Put(b.data, (b.front + idx) % b.cap, val)])
    ELSE IF -b.cnt <= idx /\ idx < 0
    THEN Ok([b EXCEPT !.data = Put(b.data, (b.front + b.cnt + idx) % b.cap, val)])
    ELSE IF b.cnt < 1
    THEN RaisesMsg(b, IndexError, EmptySet("CA"))
    ELSE RaisesMsg(b, IndexError, OutOfBounds(idx, b.cnt, "setting", "CA"))

\* emptying starts again from the smallest slot array
CA_empty_compacts(b) == Buf(<<None, None>>, 0, 2, 0, 1)

CA_empty(b) == Buf(Nones(b.cap), 0, b.cap, 0, b.cap - 1)

\* the padded empty buffer keeps the rear the compaction gave it
CA_resize_rear_kept(b, minimum_capacity) ==
    LET c == CA_compact_storage_capacity(b)
    IN  IF minimum_capacity > c.cap
        THEN [c EXCEPT !.cap = minimum_capacity,
                       !.data = c.data \o Nones(minimum_capacity - c.cap)]
        ELSE c

CA_resize(b, minimum_capacity) ==
    LET c == CA_compact_storage_capacity(b)
    IN  IF minimum_capacity > c.cap
        THEN LET g == [c EXCEPT !.cap = minimum_capacity,
                                !.data = c.data \o Nones(minimum_capacity - c.cap)]
             IN  IF g.cnt = 0
                 THEN [g EXCEPT !.front = 0, !.rear = g.cap - 1]
                 ELSE g
        ELSE c

(***************************************************************************)
(* Python list operations used by the rebuilding methods                   *)
(***************************************************************************)
\* del l[idx] succeeds for -len(l) <= idx < len(l)
ListIdxOk(l, idx) == -Len(l) <= idx /\ idx < Len(l)

ListDelIdx(l, idx) ==
    LET i == IF idx < 0 THEN Len(l) + idx ELSE idx
    IN  Slice(l, 0, i) \o Slice(l, i + 1, Len(l))

\* the bounds of l[start:stop] for start, stop >= 0 and no step
SliceLo(l, start) == Min(start, Len(l))

SliceHi(l, start, stop) == Max(SliceLo(l, start), Min(stop, Len(l)))

\* l[start:stop] = vals
ListSetSlice(l, start, stop, vals) ==
    Slice(l, 0, SliceLo(l, start)) \o vals \o Slice(l, SliceHi(l, start, stop), Len(l))

\* del l[start:stop]
ListDelSlice(l, start, stop) ==
    Slice(l, 0, SliceLo(l, start)) \o Slice(l, SliceHi(l, start, stop), Len(l))

(***************************************************************************)
(* CA: slices and deletion, by rebuilding from a list                      *)
(***************************************************************************)
CA_getitem_slice(b, start, stop) ==
    CA_init(Slice(CA_list(b), SliceLo(CA_list(b), start),
                  SliceHi(CA_list(b), start, stop)))

\* a value that is not an Iterable is refused after the content was dropped
CA_setitem_slice_clears_first(b, start, stop, vals, iterable) ==
    IF iterable
    THEN Ok(CA_init(ListSetSlice(CA_list(b), start, stop, vals)))
    ELSE Raises(CA_init(<<>>), TypeError)

\* iterable = FALSE stands for a value that is not an Iterable
CA_setitem_slice(b, start, stop, vals, iterable) ==
    IF iterable
    THEN Ok(CA_init(ListSetSlice(CA_list(b), start, stop, vals)))
    ELSE Raises(b, TypeError)

CA_delitem(b, idx) ==
    IF ListIdxOk(CA_list(b), idx)
    THEN Ok(CA_init(ListDelIdx(CA_list(b), idx)))
    ELSE Raises(b, IndexError)

CA_delitem_slice(b, start, stop) ==
    Ok(CA_init(ListDelSlice(CA_list(b), start, stop)))

(***************************************************************************)
(* CAF: construction, traversal run to completion                          *)
(***************************************************************************)
\* the capacity asked for is taken as it is, however many elements come
CAF_init_capacity_as_asked(ds, capacity) ==
    LET c == Max(2, capacity)
        count == Len(ds)
        d == SubSeq(ds \o Nones(c - count), 1, c)
    IN  IF count = 0
        THEN Buf(d, count, c, 0, c - 1)
        ELSE Buf(d, Min(count, c), c, 0, Min(count, c) - 1)

CAF_init(ds, capacity) ==
    LET c0 == Max(2, capacity)
        count == Len(ds)
        c == Max(count, c0)
        d == ds \o Nones(c - count)
    IN  IF count = 0
        THEN Buf(d, count, c, 0, c - 1)
        ELSE Buf(d, count, c, 0, count - 1)

RECURSIVE CAF_iter_loop(_, _, _, _, _)
CAF_iter_loop(current_state, capacity, rear_, position, acc) ==
    IF position # rear_
    THEN CAF_iter_loop(current_state, capacity, rear_, (position + 1) % capacity,
                       Append(acc, At(current_state, position)))
    ELSE Append(acc, At(current_state, position))

CAF_list(b) ==
    IF b.cnt > 0 THEN CAF_iter_loop(b.data, b.cap, b.rear, b.front, <<>>) ELSE <<>>

RECURSIVE CAF_reversed_loop(_, _, _, _, _)
CAF_reversed_loop(current_state, capacity, front_, position, acc) ==
    IF position # front_
    THEN CAF_reversed_loop(current_state, capacity, front_, (position - 1) % capacity,
                           Append(acc, At(current_state, position)))
    ELSE Append(acc, At(current_state, position))

CAF_list_reversed(b) ==
    IF b.cnt > 0 THEN CAF_reversed_loop(b.data, b.cap, b.front, b.rear, <<>>) ELSE <<>>

(***************************************************************************)
(* CAF: push and pop                                                       *)
(***************************************************************************)
\* the slot is chosen with the front as it was before the assignment
CAF_pushl_stale_front(b, d) ==
    IF b.cnt = b.cap
    THEN Raises(b, ValueError)
    ELSE Ok([b EXCEPT !.front = (b.front - 1) % b.cap,
                      !.data = Put(b.data, b.front, d),
                      !.cnt = b.cnt + 1])

CAF_pushl(b, d) ==
    IF b.cnt = b.cap
    THEN Raises(b, ValueError)
    ELSE LET f == (b.front - 1) % b.cap
         IN  Ok([b EXCEPT !.front = f, !.data = Put(b.data, f, d), !.cnt = b.cnt + 1])

\* the full test is off by one
CAF_pushr_late_full_test(b, d) ==
    IF b.cnt > b.cap
    THEN Raises(b, ValueError)
    ELSE LET r == (b.rear + 1) % b.cap
         IN  Ok([b EXCEPT !.rear = r, !.data = Put(b.data, r, d), !.cnt = b.cnt + 1])

CAF_pushr(b, d) ==
    IF b.cnt = b.cap
    THEN Raises(b, ValueError)
    ELSE LET r == (b.rear + 1) % b.cap
         IN  Ok([b EXCEPT !.rear = r, !.data = Put(b.data, r, d), !.cnt = b.cnt + 1])

\* popping the last element moves front like any other pop
CAF_popl_last_not_reset(b) ==
    IF b.cnt >= 1
    THEN Returns([b EXCEPT !.data = Put(b.data, b.front, None),
                           !.front = (b.front + 1) % b.cap,
                           !.cnt = b.cnt - 1],
                 At(b.data, b.front))
    ELSE Raises(b, ValueError)

CAF_popl(b) ==
    IF b.cnt > 1
    THEN Returns([b EXCEPT !.data = Put(b.data, b.front, None),
                           !.front = (b.front + 1) % b.cap,
                           !.cnt = b.cnt - 1],
                 At(b.data, b.front))
    ELSE IF b.cnt = 1
    THEN Returns([b EXCEPT !.data = Put(b.data, b.front, None),
                           !.cnt = 0,
                           !.front = 0,
                           !.rear = b.cap - 1],
                 At(b.data, b.front))
    ELSE Raises(b, ValueError)

\* a pop on the right that lowers the count and forgets to move rear
CAF_popr_rear_unmoved(b) ==
    IF b.cnt > 1
    THEN Returns([b EXCEPT !.data = Put(b.data, b.rear, None),
                           !.cnt = b.cnt - 1],
                 At(b.data, b.rear))
    ELSE IF b.cnt = 1
    THEN Returns([b EXCEPT !.data = Put(b.data, b.front, None),
                           !.cnt = 0,
                           !.front = 0,
                           !.rear = b.cap - 1],
                 At(b.data, b.front))
    ELSE Raises(b, ValueError)

CAF_popr(b) ==
    IF b.cnt > 1
    THEN Returns([b EXCEPT !.data = Put(b.data, b.rear, None),
                           !.rear = (b.rear - 1) % b.cap,
                           !.cnt = b.cnt - 1],
                 At(b.data, b.rear))
    ELSE IF b.cnt = 1
    THEN Returns([b EXCEPT !.data = Put(b.data, b.front, None),
                           !.cnt = 0,
                           !.front = 0,
                           !.rear = b.cap - 1],
                 At(b.data, b.front))
    ELSE Raises(b, ValueError)

CAF_popld(b, default) ==
    LET p == CAF_popl(b)
    IN  IF p.err = ValueError THEN Returns(p.b, default) ELSE p

CAF_poprd(b, default) ==
    LET p == CAF_popr(b)
    IN  IF p.err = ValueError THEN Returns(p.b, default) ELSE p

RECURSIVE CAF_poplt_loop(_, _, _)
CAF_poplt_loop(b, maximum, ds) ==
    IF maximum > 0
    THEN LET p == CAF_popl(b)
         IN  IF p.err = ValueError
             THEN Out(p.b, None, ds, NoError)
             ELSE CAF_poplt_loop(p.b, maximum - 1, Append(ds, p.val))
    ELSE Out(b, None, ds, NoError)

CAF_poplt(b, maximum) == CAF_poplt_loop(b, maximum, <<>>)

RECURSIVE CAF_poprt_loop(_, _, _)
CAF_poprt_loop(b, maximum, ds) ==
    IF maximum > 0
    THEN LET p == CAF_popr(b)
         IN  IF p.err = ValueError
             THEN Out(p.b, None, ds, NoError)
             ELSE CAF_poprt_loop(p.b, maximum - 1, Append(ds, p.val))
    ELSE Out(b, None, ds, NoError)

CAF_poprt(b, maximum) == CAF_poprt_loop(b, maximum, <<>>)

(***************************************************************************)
(* CAF: rotation, indexing, deletion, emptying                             *)
(***************************************************************************)
RECURSIVE CAF_rotl_loop(_, _)
CAF_rotl_loop(b, n) ==
    IF n > 0
    THEN LET p == CAF_popl(b)
         IN  IF p.err # NoError
             THEN Raises(p.b, p.err)
             ELSE LET q == CAF_pushr(p.b, p.val)
                  IN  IF q.err # NoError
                      THEN Raises(q.b, q.err)
                      ELSE CAF_rotl_loop(q.b, n - 1)
    ELSE Ok(b)

\* the element is pushed on the right before it is popped from the left
RECURSIVE CAF_rotl_push_first_loop(_, _)
CAF_rotl_push_first_loop(b, n) ==
    IF n > 0
    THEN LET q == CAF_pushr(b, At(b.data, b.front))
         IN  IF q.err # NoError
             THEN Raises(q.b, q.err)
             ELSE CAF_rotl_push_first_loop(CAF_popl(q.b).b, n - 1)
    ELSE Ok(b)

CAF_rotl_push_first(b, n) ==
    IF b.cnt < 2 THEN Ok(b) ELSE CAF_rotl_push_first_loop(b, n)

CAF_rotl(b, n) == IF b.cnt < 2 THEN Ok(b) ELSE CAF_rotl_loop(b, n)

RECURSIVE CAF_rotr_loop(_, _)
CAF_rotr_loop(b, n) ==
    IF n > 0
    THEN LET p == CAF_popr(b)
         IN  IF p.err # NoError
             THEN Raises(p.b, p.err)
             ELSE LET q == CAF_pushl(p.b, p.val)
                  IN  IF q.err # NoError
                      THEN Raises(q.b, q.err)
                      ELSE CAF_rotr_loop(q.b, n - 1)
    ELSE Ok(b)

CAF_rotr(b, n) == IF b.cnt < 2 THEN Ok(b) ELSE CAF_rotr_loop(b, n)

CAF_getitem(b, idx) ==
    IF 0 <= idx /\ idx < b.cnt
    THEN Returns(b, At(b.data, (b.front + idx) % b.cap))
    ELSE IF -b.cnt <= idx /\ idx < 0
    THEN Returns(b, At(b.data, (b.front + b.cnt + idx) % b.cap))
    ELSE IF b.cnt = 0
    THEN RaisesMsg(b, IndexError, EmptyGet("CAF"))
    ELSE RaisesMsg(b, IndexError, OutOfBounds(idx, b.cnt, "getting", "CAF"))

\* the range test is left out: the index is taken as it comes
CAF_setitem_unchecked(b, idx, val) ==
    Ok([b EXCEPT !.data = Put(b.data, (b.front + idx) % b.cap, val)])

CAF_setitem(b, idx, val) ==
    IF 0 <= idx /\ idx < b.cnt
    THEN Ok([b EXCEPT !.data = Put(b.data, (b.front + idx) % b.cap, val)])
    ELSE IF -b.cnt <= idx /\ idx < 0
    THEN Ok([b EXCEPT !.data = Put(b.data, (b.front + b.cnt + idx) % b.cap, val)])
    ELSE IF b.cnt < 1
    THEN RaisesMsg(b, IndexError, EmptySet("CAF"))
    ELSE RaisesMsg(b, IndexError, OutOfBounds(idx, b.cnt, "setting", "CAF"))

\* the rebuild forgets to pass the capacity on
CAF_delitem_default_capacity(b, idx) ==
    IF ListIdxOk(CAF_list(b), idx)
    THEN LET c == CAF_init(ListDelIdx(CAF_list(b), idx), 2)
         IN  Ok([b EXCEPT !.data = c.data, !.cnt = c.cnt,
                          !.front = c.front, !.rear = c.rear])
    ELSE Raises(b, IndexError)

\* self._cap is not among the fields __delitem__ assigns
CAF_delitem(b, idx) ==
    IF ListIdxOk(CAF_list(b), idx)
    THEN LET c == CAF_init(ListDelIdx(CAF_list(b), idx), b.cap)
         IN  Ok([b EXCEPT !.data = c.data, !.cnt = c.cnt,
                          !.front = c.front, !.rear = c.rear])
    ELSE Raises(b, IndexError)

\* the slots and the count are cleared, the ends stay where they were
CAF_empty_keeps_ends(b) == [b EXCEPT !.data = Nones(b.cap), !.cnt = 0]

CAF_empty(b) == Buf(Nones(b.cap), 0, b.cap, 0, b.cap - 1)

\* true for every buffer that holds something
CAF_bool_nonempty(b) == b.cnt > 0

CAF_bool(b) == 0 < b.cnt /\ b.cnt < b.cap

CA_bool(b) == b.cnt > 0

(***************************************************************************)
(* Equality                                                                *)
(***************************************************************************)
\* x is y and x != y for the values held here, None and small integers, each
\* of which is one object
Is(x, y) == x = y

Ne(x, y) == x # y

\* the loop of __eq__ from logical index nn on
RECURSIVE eq_loop(_, _, _)
eq_loop(b1, b2, nn) ==
    IF nn >= b1.cnt
    THEN TRUE
    ELSE LET x == At(b1.data, (b1.front + nn) % b1.cap)
             y == At(b2.data, (b2.front + nn) % b2.cap)
         IN  IF Is(x, y)
             THEN eq_loop(b1, b2, nn + 1)
             ELSE IF Ne(x, y)
             THEN FALSE
             ELSE eq_loop(b1, b2, nn + 1)

CA_eq(self, other) ==
    IF self.id = other.id
    THEN TRUE
    ELSE IF other.cls # self.cls
    THEN FALSE
    ELSE IF self.b.cnt # other.b.cnt
    THEN FALSE
    ELSE eq_loop(self.b, other.b, 0)

\* an equality that compares the storage slot by slot
CAF_eq_slot_by_slot(self, other) ==
    IF self.id = other.id
    THEN TRUE
    ELSE IF other.cls # self.cls
    THEN FALSE
    ELSE IF self.b.cnt # other.b.cnt
    THEN FALSE
    ELSE self.b.data = other.b.data

CAF_eq(self, other) ==
    IF self.id = other.id
    THEN TRUE
    ELSE IF other.cls # self.cls
    THEN FALSE
    ELSE IF self.b.cnt # other.b.cnt
    THEN FALSE
    ELSE eq_loop(self.b, other.b, 0)

(***************************************************************************)
(* Printing, the factories, and eval of what was printed                   *)
(***************************************************************************)
\* repr of a value held here
Repr(v) == CASE v = None -> "None" [] v = 1 -> "1" [] v = 2 -> "2"

\* sep.join(strs), in pieces
RECURSIVE Join(_, _)
Join(sep, strs) ==
    IF Len(strs) = 0
    THEN <<>>
    ELSE IF Len(strs) = 1
    THEN <<strs[1]>>
    ELSE <<strs[1], sep>> \o Join(sep, Tail(strs))

\* the reprs of the storage, slot by slot
CAF_repr_of_slots(b) ==
    <<"caf(">> \o Join(", ", [i \in 1..b.cap |-> Repr(b.data[i])]) \o <<")">>

CA_repr(b) ==
    <<"ca(">> \o Join(", ", [i \in 1..b.cnt |-> Repr(CA_list(b)[i])]) \o <<")">>

CAF_repr(b) ==
    <<"caf(">> \o Join(", ", [i \in 1..b.cnt |-> Repr(CAF_list(b)[i])]) \o <<")">>

ca(items) == CA_init(items)

caf(ts, capacity) == CAF_init(ts, capacity)

\* the value a printed literal evaluates to
Literal(s) == CASE s = "None" -> None [] s = "1" -> 1 [] s = "2" -> 2

\* the arguments of the call a printed instance spells
Items(text) == [i \in 1..((Len(text) - 1) \div 2) |-> Literal(text[2 * i])]

\* eval(text) where the names ca and caf are the factories; another name is a
\* NameError
Eval(text) ==
    CASE text[1] = "ca(" -> Obj("new", "CA", ca(Items(text)))
      [] text[1] = "caf(" -> Obj("new", "CAF", caf(Items(text), 2))
      [] OTHER -> NoObj

(***************************************************************************)
(* map and the folds, over callables f the model names                     *)
(***************************************************************************)
\* f(x) for the callables handed to map
Apply1(f, x) ==
    CASE f = "affine" -> IF x = None THEN 5 ELSE 3 * x + 1
      [] f = "to_none" -> None

\* f(x, y) for the callables handed to the folds, None if either is None: lt20
\* of the tests, and one for which the order of the arguments matters
Apply2(f, x, y) ==
    CASE f = "lt20" -> IF x = None \/ y = None
                       THEN None
                       ELSE IF x + y < 20 THEN x + y ELSE None
      [] f = "weighted" -> IF x = None \/ y = None THEN None ELSE 3 * x + y

\* for d in ds: acc = f(acc, d)
RECURSIVE FoldLoopL(_, _, _)
FoldLoopL(f, acc, ds) ==
    IF ds = <<>> THEN acc ELSE FoldLoopL(f, Apply2(f, acc, Head(ds)), Tail(ds))

\* for d in ds: acc = f(d, acc)
RECURSIVE FoldLoopR(_, _, _)
FoldLoopR(f, acc, ds) ==
    IF ds = <<>> THEN acc ELSE FoldLoopR(f, Apply2(f, Head(ds), acc), Tail(ds))

CA_map(b, f) ==
    [Ok(b) EXCEPT !.new = Obj("new", "CA",
                              CA_init([i \in 1..b.cnt |-> Apply1(f, CA_list(b)[i])]))]

\* a map that builds its result with the default capacity
CAF_map_default_capacity(b, f) ==
    [Ok(b) EXCEPT !.new = Obj("new", "CAF",
                              CAF_init([i \in 1..b.cnt |-> Apply1(f, CAF_list(b)[i])], 2))]

CAF_map(b, f) ==
    [Ok(b) EXCEPT !.new = Obj("new", "CAF",
                              CAF_init([i \in 1..b.cnt |-> Apply1(f, CAF_list(b)[i])],
                                       b.cap))]

\* for idx in range(1, self._cnt): acc = f(acc, self[idx])
RECURSIVE CA_foldl_loop(_, _, _, _)
CA_foldl_loop(b, f, acc, idx) ==
    IF idx >= b.cnt
    THEN acc
    ELSE CA_foldl_loop(b, f, Apply2(f, acc, CA_getitem(b, idx).val), idx + 1)

\* a fold that takes the start item for the first element and folds all the
\* same
CA_foldl_start_ignored(b, f, start) ==
    IF b.cnt = 0
    THEN IF start = None
         THEN RaisesMsg(b, ValueError,
                        <<"Method foldl called on an empty CA without a start item.">>)
         ELSE Returns(b, start)
    ELSE Returns(b, CA_foldl_loop(b, f, CA_getitem(b, 0).val, 1))

\* start = None is the absent start item
CA_foldl(b, f, start) ==
    IF b.cnt = 0
    THEN IF start = None
         THEN RaisesMsg(b, ValueError,
                        <<"Method foldl called on an empty CA without a start item.">>)
         ELSE Returns(b, start)
    ELSE IF start = None
    THEN Returns(b, CA_foldl_loop(b, f, CA_getitem(b, 0).val, 1))
    ELSE Returns(b, FoldLoopL(f, start, CA_list(b)))

\* for idx in range(self._cnt - 2, -1, -1): acc = f(self[idx], acc)
RECURSIVE CA_foldr_loop(_, _, _, _)
CA_foldr_loop(b, f, acc, idx) ==
    IF idx <= 0 - 1
    THEN acc
    ELSE CA_foldr_loop(b, f, Apply2(f, CA_getitem(b, idx).val, acc), idx - 1)

CA_foldr(b, f, start) ==
    IF b.cnt = 0
    THEN IF start = None
         THEN RaisesMsg(b, ValueError,
                        <<"Method foldr called on empty CA without initial value.">>)
         ELSE Returns(b, start)
    ELSE IF start = None
    THEN Returns(b, CA_foldr_loop(b, f, CA_getitem(b, 0 - 1).val, b.cnt - 2))
    ELSE Returns(b, FoldLoopR(f, start, CA_list_reversed(b)))

RECURSIVE CAF_foldl_loop(_, _, _, _)
CAF_foldl_loop(b, f, acc, idx) ==
    IF idx >= b.cnt
    THEN acc
    ELSE CAF_foldl_loop(b, f, Apply2(f, acc, CAF_getitem(b, idx).val), idx + 1)

CAF_foldl(b, f, initial) ==
    IF b.cnt = 0
    THEN IF initial = None
         THEN RaisesMsg(b, ValueError,
                        <<"Method foldl called on an empty CAF without an initial value.">>)
         ELSE Returns(b, initial)
    ELSE IF initial = None
    THEN Returns(b, CAF_foldl_loop(b, f, CAF_getitem(b, 0).val, 1))
    ELSE Returns(b, FoldLoopL(f, initial, CAF_list(b)))

RECURSIVE CAF_foldr_loop(_, _, _, _)
CAF_foldr_loop(b, f, acc, idx) ==
    IF idx <= 0 - 1
    THEN acc
    ELSE CAF_foldr_loop(b, f, Apply2(f, CAF_getitem(b, idx).val, acc), idx - 1)

CAF_foldr(b, f, initial) ==
    IF b.cnt = 0
    THEN IF initial = None
         THEN RaisesMsg(b, ValueError,
                        <<"Method foldr called on empty CAF without initial value.">>)
         ELSE Returns(b, initial)
    ELSE IF initial = None
    THEN Returns(b, CAF_foldr_loop(b, f, CAF_getitem(b, 0 - 1).val, b.cnt - 2))
    ELSE Returns(b, FoldLoopR(f, initial, CAF_list_reversed(b)))

(***************************************************************************)
(* The CA of the single-file module src/pythonic_fp/circulararray.py       *)
(* (kind = "CAfile"): the same fields, its own methods.                    *)
(***************************************************************************)
\* a traversal that never reaches its last position
Diverges == "diverges"

CAfile_init(ds) ==
    LET d == <<None>> \o ds \o <<None>>
        c == Len(d)
    IN  IF c = 2
        THEN Buf(d, c - 2, c, 0, 1)
        ELSE Buf(d, c - 2, c, 1, c - 2)

CAfile_double_storage_capacity(b) ==
    IF b.front <= b.rear
    THEN [b EXCEPT !.data = b.data \o Nones(b.cap),
                   !.cap = b.cap * 2]
    ELSE [b EXCEPT !.data = Slice(b.data, 0, b.front) \o Nones(b.cap)
                              \o Slice(b.data, b.front, Len(b.data)),
                   !.front = b.front + b.cap,
                   !.cap = 2 * b.cap]

\* pushl(*ds) / pushr(*ds): one pass of the loop for each d
RECURSIVE CAfile_pushl(_, _)
CAfile_pushl(b, ds) ==
    IF ds = <<>>
    THEN b
    ELSE LET g == IF b.cnt = b.cap THEN CAfile_double_storage_capacity(b) ELSE b
             f == (g.front - 1) % g.cap
         IN  CAfile_pushl([g EXCEPT !.front = f, !.data = Put(g.data, f, Head(ds)),
                                    !.cnt = g.cnt + 1],
                          Tail(ds))

RECURSIVE CAfile_pushr(_, _)
CAfile_pushr(b, ds) ==
    IF ds = <<>>
    THEN b
    ELSE LET g == IF b.cnt = b.cap THEN CAfile_double_storage_capacity(b) ELSE b
             r == (g.rear + 1) % g.cap
         IN  CAfile_pushr([g EXCEPT !.rear = r, !.data = Put(g.data, r, Head(ds)),
                                    !.cnt = g.cnt + 1],
                          Tail(ds))

CAfile_popl(b) ==
    IF b.cnt > 1
    THEN Returns([b EXCEPT !.data = Put(b.data, b.front, None),
                           !.front = (b.front + 1) % b.cap,
                           !.cnt = b.cnt - 1],
                 At(b.data, b.front))
    ELSE IF b.cnt = 1
    THEN Returns([b EXCEPT !.data = Put(b.data, b.front, None),
                           !.cnt = 0,
                           !.front = 0,
                           !.rear = b.cap - 1],
                 At(b.data, b.front))
    ELSE Raises(b, ValueError)

\* self._data[self._rear] is read first: past the end of the list it raises
CAfile_popr(b) ==
    IF b.cnt > 1
    THEN IF b.rear >= Len(b.data)
         THEN Raises(b, IndexError)
         ELSE Returns([b EXCEPT !.data = Put(b.data, b.rear, None),
                                !.rear = (b.rear - 1) % b.cap,
                                !.cnt = b.cnt - 1],
                      At(b.data, b.rear))
    ELSE IF b.cnt = 1
    THEN Returns([b EXCEPT !.data = Put(b.data, b.front, None),
                           !.cnt = 0,
                           !.front = 0,
                           !.rear = b.cap - 1],
                 At(b.data, b.front))
    ELSE Raises(b, ValueError)

\* _cnt is not among the fields assigned, and _rear gets _cap
CAfile_empty(b) == [b EXCEPT !.data = Nones(b.cap), !.front = 0, !.rear = b.cap]

CAfile_len(b) == b.cnt

\* list(b).  position takes the values front, front + 1, ... modulo capacity; when
\* `turns` passes of the loop have not met rear_, position is back where it began
\* and the loop goes on for ever
RECURSIVE CAfile_iter_loop(_, _, _, _, _, _)
CAfile_iter_loop(current_state, capacity, rear_, position, acc, turns) ==
    IF position # rear_
    THEN IF turns = 0
         THEN Out(None, None, acc, Diverges)
         ELSE CAfile_iter_loop(current_state, capacity, rear_, (position + 1) % capacity,
                               Append(acc, At(current_state, position)), turns - 1)
    ELSE Out(None, None, Append(acc, At(current_state, position)), NoError)

CAfile_list(b) ==
    IF b.cnt > 0
    THEN [CAfile_iter_loop(b.data, b.cap, b.rear, b.front, <<>>, b.cap) EXCEPT !.b = b]
    ELSE Out(b, None, <<>>, NoError)

(***************************************************************************)
(* Traversal step by step.  __iter__ and __reversed__ are generator        *)
(* functions: calling them only creates the generator object; the body     *)
(* runs from its first line when the first element is requested.           *)
(*   pc = "created"  no line of the body has run                           *)
(*   pc = "loop"     suspended at the yield inside the while loop          *)
(*   pc = "last"     suspended at the yield after the loop                 *)
(*   pc = "done"     the body has returned                                 *)
(***************************************************************************)
NoGen == [pc |-> "none", dir |-> "none", capacity |-> 0, stop |-> 0, position |-> 0,
          current_state |-> <<>>, out |-> <<>>]

NewGen(dir) == [NoGen EXCEPT !.pc = "created", !.dir = dir]

\* the body returns: the frame and its locals are released
GenReturn(g) == [NoGen EXCEPT !.pc = "done", !.dir = g.dir, !.out = g.out]

\* control reaches the while test with the frame g
GenYield(g) ==
    IF g.position # g.stop
    THEN [g EXCEPT !.pc = "loop", !.out = Append(g.out, At(g.current_state, g.position))]
    ELSE [g EXCEPT !.pc = "last", !.out = Append(g.out, At(g.current_state, g.position))]

\* the traversal reads the live slot array instead of its copy
CA_iter_next_aliased(g, b) ==
    CASE g.pc = "created" ->
            IF b.cnt > 0
            THEN GenYield([g EXCEPT !.capacity = b.cap, !.stop = b.rear,
                                    !.position = b.front, !.current_state = b.data])
            ELSE GenReturn(g)
      [] g.pc = "loop" ->
            GenYield([g EXCEPT !.position = (g.position + 1) % g.capacity,
                               !.current_state =
                                   IF Len(b.data) = g.capacity THEN b.data ELSE @])
      [] OTHER -> GenReturn(g)

CA_iter_next(g, b) ==
    CASE g.pc = "created" ->
            IF b.cnt > 0
            THEN GenYield([g EXCEPT !.capacity = b.cap, !.stop = b.rear,
                                    !.position = b.front, !.current_state = b.data])
            ELSE GenReturn(g)
      [] g.pc = "loop" ->
            GenYield([g EXCEPT !.position = (g.position + 1) % g.capacity])
      [] OTHER -> GenReturn(g)

CA_reversed_next(g, b) ==
    CASE g.pc = "created" ->
            IF b.cnt > 0
            THEN GenYield([g EXCEPT !.capacity = b.cap, !.stop = b.front,
                                    !.position = b.rear, !.current_state = b.data])
            ELSE GenReturn(g)
      [] g.pc = "loop" ->
            GenYield([g EXCEPT !.position = (g.position - 1) % g.capacity])
      [] OTHER -> GenReturn(g)

\* the loop is bounded by the live rear instead of the captured one
CAF_iter_next_live_rear(g, b) ==
    CASE g.pc = "created" ->
            IF b.cnt > 0
            THEN GenYield([g EXCEPT !.capacity = b.cap, !.stop = b.rear,
                                    !.position = b.front, !.current_state = b.data])
            ELSE GenReturn(g)
      [] g.pc = "loop" ->
            GenYield([g EXCEPT !.position = (g.position + 1) % g.capacity,
                               !.stop = b.rear])
      [] OTHER -> GenReturn(g)

CAF_iter_next(g, b) ==
    CASE g.pc = "created" ->
            IF b.cnt > 0
            THEN GenYield([g EXCEPT !.capacity = b.cap, !.stop = b.rear,
                                    !.position = b.front, !.current_state = b.data])
            ELSE GenReturn(g)
      [] g.pc = "loop" ->
            GenYield([g EXCEPT !.position = (g.position + 1) % g.capacity])
      [] OTHER -> GenReturn(g)

\* the reverse traversal stops at the live front instead of the captured one
CAF_reversed_next_live_front(g, b) ==
    CASE g.pc = "created" ->
            IF b.cnt > 0
            THEN GenYield([g EXCEPT !.capacity = b.cap, !.stop = b.front,
                                    !.position = b.rear, !.current_state = b.data])
            ELSE GenReturn(g)
      [] g.pc = "loop" ->
            GenYield([g EXCEPT !.position = (g.position - 1) % g.capacity,
                               !.stop = b.front])
      [] OTHER -> GenReturn(g)

CAF_reversed_next(g, b) ==
    CASE g.pc = "created" ->
            IF b.cnt > 0
            THEN GenYield([g EXCEPT !.capacity = b.cap, !.stop = b.front,
                                    !.position = b.rear, !.current_state = b.data])
            ELSE GenReturn(g)
      [] g.pc = "loop" ->
            GenYield([g EXCEPT !.position = (g.position - 1) % g.capacity])
      [] OTHER -> GenReturn(g)

(***************************************************************************)
(* Reference double-ended sequence                                         *)
(***************************************************************************)
RefDropL(s, n) == SubSeq(s, Min(Max(n, 0), Len(s)) + 1, Len(s))

RefDropR(s, n) == SubSeq(s, 1, Len(s) - Min(Max(n, 0), Len(s)))

RefTakeL(s, n) == SubSeq(s, 1, Min(Max(n, 0), Len(s)))

RefTakeR(s, n) == Reverse(SubSeq(s, Len(s) - Min(Max(n, 0), Len(s)) + 1, Len(s)))

RefRotL(s, n) ==
    IF Len(s) < 2 \/ n <= 0 THEN s
    ELSE SubSeq(s, (n % Len(s)) + 1, Len(s)) \o SubSeq(s, 1, n % Len(s))

RefRotR(s, n) ==
    IF Len(s) < 2 \/ n <= 0 THEN s
    ELSE SubSeq(s, Len(s) - (n % Len(s)) + 1, Len(s)) \o SubSeq(s, 1, Len(s) - (n % Len(s)))

RefSet(s, idx, v) ==
    IF ListIdxOk(s, idx)
    THEN [s EXCEPT ![(IF idx < 0 THEN Len(s) + idx ELSE idx) + 1] = v]
    ELSE s

RefDel(s, idx) == IF ListIdxOk(s, idx) THEN ListDelIdx(s, idx) ELSE s

(***************************************************************************)
(* Arguments callers pass                                                  *)
(***************************************************************************)
IdxArgs == (0 - cnt - 1)..cnt          \* every valid index, one invalid each side

NArgs == (0 - 1)..MaxN                 \* n of rotl/rotr, maximum of poplt/poprt

CapArgs == 0..MaxCapArg                \* capacity of CAF(...)

\* minimum_capacity of resize: up to one more than a compacted full-length CA needs
ResizeArgs == 0..(MaxLen + 3)

\* start:stop, including stop below start and stop beyond the end
SliceArgs == {sl \in (0..cnt) \X (0..cnt + 1) : sl[2] >= sl[1] - 1}

SliceVals == {<<>>, <<1>>, <<None, 2>>}

(***************************************************************************)
(* Operations as steps                                                     *)
(***************************************************************************)
\* between two calls the caller holds no result
Idle == [op |-> "idle", args |-> <<>>, val |-> None, vals |-> <<>>, err |-> NoError,
         msg |-> <<>>, refwas |-> <<>>, text |-> <<>>, new |-> NoObj]

\* the caller is about to call a method of an instance of class k
Ready(k) == ret = Idle /\ kind = k

\* one method call, from the caller's statement to its return or raise
Call(op, args, r, newref) ==
    /\ pre' = Self
    /\ data' = r.b.data
    /\ cnt' = r.b.cnt
    /\ cap' = r.b.cap
    /\ front' = r.b.front
    /\ rear' = r.b.rear
    /\ ret' = [op |-> op, args |-> args, val |-> r.val, vals |-> r.vals, err |-> r.err,
               msg |-> r.msg, refwas |-> ref, text |-> r.text, new |-> r.new]
    /\ ref' = IF r.err = NoError THEN newref ELSE ref
    /\ UNCHANGED <<kind, gen, seen, gen2, grown, twin>>

\* the caller drops the result (or handles the exception) and goes on
CallerContinues ==
    /\ ret # Idle
    /\ ret' = Idle
    /\ pre' = Self
    /\ UNCHANGED <<kind, data, cnt, cap, front, rear, ref, gen, seen, gen2, grown, twin>>

CA_pushl_step ==
    /\ Ready("CA")
    /\ cnt < MaxLen
    /\ \E d \in Values : Call("pushl", <<d>>, Ok(CA_pushl1(Self, d)), <<d>> \o ref)

CA_pushr_step ==
    /\ Ready("CA")
    /\ cnt < MaxLen
    /\ \E d \in Values : Call("pushr", <<d>>, Ok(CA_pushr1(Self, d)), ref \o <<d>>)

CA_popl_step ==
    /\ Ready("CA")
    /\ Call("popl", <<>>, CA_popl(Self), RefDropL(ref, 1))

CA_popr_step ==
    /\ Ready("CA")
    /\ Call("popr", <<>>, CA_popr(Self), RefDropR(ref, 1))

CA_popld_step ==
    /\ Ready("CA")
    /\ Call("popld", <<Default>>, CA_popld(Self, Default), RefDropL(ref, 1))

CA_poprd_step ==
    /\ Ready("CA")
    /\ Call("poprd", <<Default>>, CA_poprd(Self, Default), RefDropR(ref, 1))

CA_poplt_step ==
    /\ Ready("CA")
    /\ \E m \in NArgs : Call("poplt", <<m>>, CA_poplt(Self, m), RefDropL(ref, m))

CA_poprt_step ==
    /\ Ready("CA")
    /\ \E m \in NArgs : Call("poprt", <<m>>, CA_poprt(Self, m), RefDropR(ref, m))

CA_rotl_step ==
    /\ Ready("CA")
    /\ \E n \in NArgs : Call("rotl", <<n>>, CA_rotl(Self, n), RefRotL(ref, n))

CA_rotr_step ==
    /\ Ready("CA")
    /\ \E n \in NArgs : Call("rotr", <<n>>, CA_rotr(Self, n), RefRotR(ref, n))

CA_getitem_step ==
    /\ Ready("CA")
    /\ \E idx \in IdxArgs : Call("getitem", <<idx>>, CA_getitem(Self, idx), ref)

CA_setitem_step ==
    /\ Ready("CA")
    /\ \E idx \in IdxArgs, v \in Values :
          Call("setitem", <<idx, v>>, CA_setitem(Self, idx, v), RefSet(ref, idx, v))

CA_delitem_step ==
    /\ Ready("CA")
    /\ \E idx \in IdxArgs : Call("delitem", <<idx>>, CA_delitem(Self, idx), RefDel(ref, idx))

CA_setitem_slice_step ==
    /\ Ready("CA")
    /\ \E sl \in SliceArgs, vs \in SliceVals :
          /\ Len(ListSetSlice(ref, sl[1], sl[2], vs)) <= MaxLen
          /\ Call("setitem_slice", <<sl[1], sl[2]>> \o vs,
                  CA_setitem_slice(Self, sl[1], sl[2], vs, TRUE),
                  ListSetSlice(ref, sl[1], sl[2], vs))

\* the value assigned to the slice is not an Iterable
CA_setitem_slice_noniterable_step ==
    /\ Ready("CA")
    /\ \E sl \in SliceArgs, v \in Values \ {None} :
          Call("setitem_slice_noniterable", <<sl[1], sl[2], v>>,
               CA_setitem_slice(Self, sl[1], sl[2], <<>>, FALSE), ref)

CA_delitem_slice_step ==
    /\ Ready("CA")
    /\ \E sl \in SliceArgs :
          Call("delitem_slice", <<sl[1], sl[2]>>,
               CA_delitem_slice(Self, sl[1], sl[2]), ListDelSlice(ref, sl[1], sl[2]))

CA_empty_step ==
    /\ Ready("CA")
    /\ Call("empty", <<>>, Ok(CA_empty(Self)), <<>>)

CA_resize_step ==
    /\ Ready("CA")
    /\ \E m \in ResizeArgs : Call("resize", <<m>>, Ok(CA_resize(Self, m)), ref)

CAF_pushl_step ==
    /\ Ready("CAF")
    /\ \E d \in Values : Call("pushl", <<d>>, CAF_pushl(Self, d), <<d>> \o ref)

CAF_pushr_step ==
    /\ Ready("CAF")
    /\ \E d \in Values : Call("pushr", <<d>>, CAF_pushr(Self, d), ref \o <<d>>)

CAF_popl_step ==
    /\ Ready("CAF")
    /\ Call("popl", <<>>, CAF_popl(Self), RefDropL(ref, 1))

CAF_popr_step ==
    /\ Ready("CAF")
    /\ Call("popr", <<>>, CAF_popr(Self), RefDropR(ref, 1))

CAF_popld_step ==
    /\ Ready("CAF")
    /\ Call("popld", <<Default>>, CAF_popld(Self, Default), RefDropL(ref, 1))

CAF_poprd_step ==
    /\ Ready("CAF")
    /\ Call("poprd", <<Default>>, CAF_poprd(Self, Default), RefDropR(ref, 1))

CAF_poplt_step ==
    /\ Ready("CAF")
    /\ \E m \in NArgs : Call("poplt", <<m>>, CAF_poplt(Self, m), RefDropL(ref, m))

CAF_poprt_step ==
    /\ Ready("CAF")
    /\ \E m \in NArgs : Call("poprt", <<m>>, CAF_poprt(Self, m), RefDropR(ref, m))

CAF_rotl_step ==
    /\ Ready("CAF")
    /\ \E n \in NArgs : Call("rotl", <<n>>, CAF_rotl(Self, n), RefRotL(ref, n))

CAF_rotr_step ==
    /\ Ready("CAF")
    /\ \E n \in NArgs : Call("rotr", <<n>>, CAF_rotr(Self, n), RefRotR(ref, n))

CAF_getitem_step ==
    /\ Ready("CAF")
    /\ \E idx \in IdxArgs : Call("getitem", <<idx>>, CAF_getitem(Self, idx), ref)

CAF_setitem_step ==
    /\ Ready("CAF")
    /\ \E idx \in IdxArgs, v \in Values :
          Call("setitem", <<idx, v>>, CAF_setitem(Self, idx, v), RefSet(ref, idx, v))

CAF_delitem_step ==
    /\ Ready("CAF")
    /\ \E idx \in IdxArgs : Call("delitem", <<idx>>, CAF_delitem(Self, idx), RefDel(ref, idx))

CAF_empty_step ==
    /\ Ready("CAF")
    /\ Call("empty", <<>>, Ok(CAF_empty(Self)), <<>>)

\* bool(b)
CAF_bool_step ==
    /\ Ready("CAF")
    /\ Call("bool", <<>>, Returns(Self, IF CAF_bool(Self) THEN True ELSE False), ref)

\* the instance the methods are called on, as an object
Me == Obj("self", kind, Self)

\* b after b.pushl(d) for each d of ds in turn
RECURSIVE PushedL(_, _, _)
PushedL(cls, b, ds) ==
    IF ds = <<>>
    THEN b
    ELSE PushedL(cls,
                 IF cls = "CA" THEN CA_pushl1(b, Head(ds)) ELSE CAF_pushl(b, Head(ds)).b,
                 Tail(ds))

\* another instance of class cls that holds l: built from all but the first k
\* elements of l, the first k pushed on the left afterwards
Built(cls, l, capacity, k) ==
    LET j == Min(k, Len(l))
    IN  PushedL(cls,
                IF cls = "CA"
                THEN CA_init(SubSeq(l, j + 1, Len(l)))
                ELSE CAF_init(SubSeq(l, j + 1, Len(l)), capacity),
                Reverse(SubSeq(l, 1, j)))

\* the lists compared with l: l, l and one more, l without its first, l with
\* another last element
Near(l) ==
    {l, Append(l, 1)}
        \cup (IF l = <<>> THEN {} ELSE {Tail(l), [l EXCEPT ![Len(l)] = (@ + 1) % 3]})

\* the right-hand sides of ==: the instance itself, other instances of both
\* classes in several layouts, and an object that is no buffer
Operands ==
    {Me, Obj("other", "int", NoObj.b)}
        \cup {Obj("other", cls, Built(cls, l, c, k)) :
                 cls \in {"CA", "CAF"}, l \in Near(ref), c \in {MaxLen + 1, MaxLen + 2},
                 k \in {0, 2}}

CA_eq_step ==
    /\ Ready("CA")
    /\ \E o \in Operands :
          Call("eq", <<o>>, Returns(Self, IF CA_eq(Me, o) THEN True ELSE False), ref)

CAF_eq_step ==
    /\ Ready("CAF")
    /\ \E o \in Operands :
          Call("eq", <<o>>, Returns(Self, IF CAF_eq(Me, o) THEN True ELSE False), ref)

CA_repr_step ==
    /\ Ready("CA")
    /\ Call("repr", <<>>, [Ok(Self) EXCEPT !.text = CA_repr(Self)], ref)

CAF_repr_step ==
    /\ Ready("CAF")
    /\ Call("repr", <<>>, [Ok(Self) EXCEPT !.text = CAF_repr(Self)], ref)

\* the callables handed to map and to the folds, and the start items
MapFs == {"affine", "to_none"}

FoldFs == {"lt20", "weighted"}

FoldStarts == {None, 1, 2}

CA_map_step ==
    /\ Ready("CA")
    /\ \E f \in MapFs : Call("map", <<f>>, CA_map(Self, f), ref)

CAF_map_step ==
    /\ Ready("CAF")
    /\ \E f \in MapFs : Call("map", <<f>>, CAF_map(Self, f), ref)

CA_foldl_step ==
    /\ Ready("CA")
    /\ \E f \in FoldFs, start \in FoldStarts :
          Call("foldl", <<f, start>>, CA_foldl(Self, f, start), ref)

CA_foldr_step ==
    /\ Ready("CA")
    /\ \E f \in FoldFs, start \in FoldStarts :
          Call("foldr", <<f, start>>, CA_foldr(Self, f, start), ref)

CAF_foldl_step ==
    /\ Ready("CAF")
    /\ \E f \in FoldFs, initial \in FoldStarts :
          Call("foldl", <<f, initial>>, CAF_foldl(Self, f, initial), ref)

CAF_foldr_step ==
    /\ Ready("CAF")
    /\ \E f \in FoldFs, initial \in FoldStarts :
          Call("foldr", <<f, initial>>, CAF_foldr(Self, f, initial), ref)

(***************************************************************************)
(* Traversals as steps: iter(b) / reversed(b), then next() on the result   *)
(***************************************************************************)
List(b) == IF kind = "CA" THEN CA_list(b) ELSE CAF_list(b)

\* atcall: list(self) when iter(b) / reversed(b) was called, kept until the body
\* takes its copy;  moved: it was no longer list(self) at that moment
\* atcopy: list(self) when the body took its copy;  first: the fields at that moment
\* (once the traversal is over only atcopy is kept)
\* during: the instance was mutated while the traversal was suspended in its loop
NotSeen == [atcall |-> <<>>, atcopy |-> <<>>, first |-> Buf(<<>>, 0, 0, 0, 0),
            during |-> FALSE, moved |-> FALSE]

Request(k, dir) ==
    /\ kind = k
    /\ gen.pc \in {"none", "done"}
    /\ gen' = NewGen(dir)
    /\ seen' = [NotSeen EXCEPT !.atcall = List(Self)]
    /\ UNCHANGED <<kind, data, cnt, cap, front, rear, ref, pre, ret, gen2, grown, twin>>

Resume(k, dir, g) ==
    /\ kind = k
    /\ gen.pc \in {"created", "loop", "last"}
    /\ gen.dir = dir
    /\ gen' = g
    /\ seen' = IF g.pc = "done"
               THEN [NotSeen EXCEPT !.atcopy = IF gen.pc = "created" THEN List(Self)
                                                                   ELSE seen.atcopy]
               ELSE IF gen.pc = "created"
               THEN [seen EXCEPT !.atcopy = List(Self), !.first = Self, !.atcall = <<>>,
                                 !.moved = seen.atcall # List(Self)]
               ELSE seen
    /\ UNCHANGED <<kind, data, cnt, cap, front, rear, ref, pre, ret, gen2, grown, twin>>

\* no second traversal; overlap: the first traversal was suspended in its loop
\* when the second took its copy
NoGen2 == [frame |-> NoGen, atcopy |-> <<>>, overlap |-> FALSE]

\* iter(b) / reversed(b) called again while the first generator is alive
Request2(k, dir) ==
    /\ kind = k
    /\ gen.pc \in {"created", "loop", "last"}
    /\ gen2.frame.pc \in {"none", "done"}
    /\ gen2' = [NoGen2 EXCEPT !.frame = NewGen(dir)]
    /\ UNCHANGED <<kind, data, cnt, cap, front, rear, ref, pre, ret, gen, seen, grown, twin>>

\* next() on the second generator
Resume2(k, dir, g) ==
    /\ kind = k
    /\ gen2.frame.pc \in {"created", "loop", "last"}
    /\ gen2.frame.dir = dir
    /\ gen2' = IF gen2.frame.pc = "created"
               THEN [frame |-> g, atcopy |-> List(Self), overlap |-> gen.pc = "loop"]
               ELSE [gen2 EXCEPT !.frame = g]
    /\ UNCHANGED <<kind, data, cnt, cap, front, rear, ref, pre, ret, gen, seen, grown, twin>>

CA_iter_step == Request("CA", "iter")

CA_reversed_step == Request("CA", "reversed")

CAF_iter_step == Request("CAF", "iter")

CAF_reversed_step == Request("CAF", "reversed")

CA_iter_next_step == Resume("CA", "iter", CA_iter_next(gen, Self))

CA_reversed_next_step == Resume("CA", "reversed", CA_reversed_next(gen, Self))

CAF_iter_next_step == Resume("CAF", "iter", CAF_iter_next(gen, Self))

CAF_reversed_next_step == Resume("CAF", "reversed", CAF_reversed_next(gen, Self))

CA_iter2_step == Request2("CA", "iter")

CA_reversed2_step == Request2("CA", "reversed")

CAF_iter2_step == Request2("CAF", "iter")

CAF_reversed2_step == Request2("CAF", "reversed")

CA_iter2_next_step == Resume2("CA", "iter", CA_iter_next(gen2.frame, Self))

CA_reversed2_next_step == Resume2("CA", "reversed", CA_reversed_next(gen2.frame, Self))

CAF_iter2_next_step == Resume2("CAF", "iter", CAF_iter_next(gen2.frame, Self))

CAF_reversed2_next_step == Resume2("CAF", "reversed", CAF_reversed_next(gen2.frame, Self))

\* no growth has been seen since the construction, the last resize or the last
\* rebuild
NoGrowth == [from |-> 0, pushes |-> 0, gap |-> 0]

\* no second instance yet; the slot array of this one is the list object 1
NoTwin == [b |-> NoObj.b, was |-> NoObj.b, how |-> "none", last |-> "none",
           mine |-> 1, its |-> 0]

Constructed(k, b, ds, args) ==
    /\ kind = k
    /\ data = b.data
    /\ cnt = b.cnt
    /\ cap = b.cap
    /\ front = b.front
    /\ rear = b.rear
    /\ ref = ds
    /\ pre = b
    /\ ret = [op |-> "init", args |-> args, val |-> None, vals |-> <<>>, err |-> NoError,
              msg |-> <<>>, refwas |-> <<>>, text |-> <<>>, new |-> NoObj]
    /\ gen = NoGen
    /\ gen2 = NoGen2
    /\ grown = NoGrowth
    /\ twin = NoTwin
    /\ seen = NotSeen

\* the iterables handed to the constructors: every short one, and a longer one
\* that outgrows the smaller capacity arguments
InitSeqs == SeqsUpTo(Values, MaxInit) \cup {[i \in 1..(MaxInit + 1) |-> i % 3]}

Init ==
    \E ds \in InitSeqs :
        \/ Constructed("CA", CA_init(ds), ds, <<>>)
        \/ \E capacity \in CapArgs :
              Constructed("CAF", CAF_init(ds, capacity), ds, <<capacity>>)

Next ==
    \/ CallerContinues
    \/ CA_pushl_step
    \/ CA_pushr_step
    \/ CA_popl_step
    \/ CA_popr_step
    \/ CA_popld_step
    \/ CA_poprd_step
    \/ CA_poplt_step
    \/ CA_poprt_step
    \/ CA_rotl_step
    \/ CA_rotr_step
    \/ CA_getitem_step
    \/ CA_setitem_step
    \/ CA_delitem_step
    \/ CA_setitem_slice_step
    \/ CA_setitem_slice_noniterable_step
    \/ CA_delitem_slice_step
    \/ CA_empty_step
    \/ CA_resize_step
    \/ CAF_pushl_step
    \/ CAF_pushr_step
    \/ CAF_popl_step
    \/ CAF_popr_step
    \/ CAF_popld_step
    \/ CAF_poprd_step
    \/ CAF_poplt_step
    \/ CAF_poprt_step
    \/ CAF_rotl_step
    \/ CAF_rotr_step
    \/ CAF_getitem_step
    \/ CAF_setitem_step
    \/ CAF_delitem_step
    \/ CAF_empty_step
    \/ CAF_bool_step
    \/ CA_eq_step
    \/ CAF_eq_step
    \/ CA_repr_step
    \/ CAF_repr_step
    \/ CA_map_step
    \/ CAF_map_step
    \/ CA_foldl_step
    \/ CA_foldr_step
    \/ CAF_foldl_step
    \/ CAF_foldr_step

Spec == Init /\ [][Next]_vars

(***************************************************************************)
(* The instance mutated while a traversal of it is in progress: the        *)
(* caller interleaves any mutating method with the steps of the traversal  *)
(***************************************************************************)
IterValues == {1, 2}

\* largest capacity reached while a traversal is in progress
MaxIterCap == MaxIterLen + 1

IterCapArgs == {0, MaxIterCap}         \* minimum of resize

IterNArgs == 0..2                      \* n of rotl/rotr

IterIdxArgs == (0 - 1)..(cnt - 1)      \* index of an assignment

IterBound(b) ==
    /\ b.cnt <= MaxIterLen
    /\ b.cap <= MaxIterCap
    /\ \A k \in 1..Len(b.data) : b.data[k] \in IterValues \cup {None}

\* what each mutating method would do now, with the reference sequence it leaves
CA_mutations ==
    {<<Ok(CA_pushl1(Self, d)), <<d>> \o ref>> : d \in IterValues}
    \cup {<<Ok(CA_pushr1(Self, d)), ref \o <<d>> >> : d \in IterValues}
    \cup {<<CA_popl(Self), RefDropL(ref, 1)>>, <<CA_popr(Self), RefDropR(ref, 1)>>}
    \cup {<<CA_rotl(Self, n), RefRotL(ref, n)>> : n \in IterNArgs}
    \cup {<<CA_rotr(Self, n), RefRotR(ref, n)>> : n \in IterNArgs}
    \cup {<<CA_setitem(Self, x[1], x[2]), RefSet(ref, x[1], x[2])>> :
              x \in IterIdxArgs \X IterValues}
    \cup {<<Ok(CA_empty(Self)), <<>> >>}
    \cup {<<Ok(CA_resize(Self, m)), ref>> : m \in IterCapArgs}

CAF_mutations ==
    {<<CAF_pushl(Self, d), <<d>> \o ref>> : d \in IterValues}
    \cup {<<CAF_pushr(Self, d), ref \o <<d>> >> : d \in IterValues}
    \cup {<<CAF_popl(Self), RefDropL(ref, 1)>>, <<CAF_popr(Self), RefDropR(ref, 1)>>}
    \cup {<<CAF_rotl(Self, n), RefRotL(ref, n)>> : n \in IterNArgs}
    \cup {<<CAF_rotr(Self, n), RefRotR(ref, n)>> : n \in IterNArgs}
    \cup {<<CAF_setitem(Self, x[1], x[2]), RefSet(ref, x[1], x[2])>> :
              x \in IterIdxArgs \X IterValues}
    \cup {<<Ok(CAF_empty(Self)), <<>> >>}

Mutate(k, outcomes) ==
    /\ kind = k
    /\ \E o \in outcomes :
          /\ o[1].err = NoError
          /\ IterBound(o[1].b)
          /\ data' = o[1].b.data
          /\ cnt' = o[1].b.cnt
          /\ cap' = o[1].b.cap
          /\ front' = o[1].b.front
          /\ rear' = o[1].b.rear
          /\ ref' = o[2]
    /\ seen' = [seen EXCEPT !.during = @ \/ gen.pc = "loop"]
    /\ UNCHANGED <<kind, pre, ret, gen, gen2, grown, twin>>

CA_mutate_step == Mutate("CA", CA_mutations)

CAF_mutate_step == Mutate("CAF", CAF_mutations)

\* the instance starts empty: CA() or CAF(capacity = c)
InitIter == Init /\ cnt = 0 /\ IterBound(Self) /\ (kind = "CAF" => ret.args = <<cap>>)

NextIter ==
    \/ CA_iter_step
    \/ CA_reversed_step
    \/ CAF_iter_step
    \/ CAF_reversed_step
    \/ CA_iter_next_step
    \/ CA_reversed_next_step
    \/ CAF_iter_next_step
    \/ CAF_reversed_next_step
    \/ CA_mutate_step
    \/ CAF_mutate_step

SpecIter == InitIter /\ [][NextIter]_vars

(***************************************************************************)
(* Two traversals of one instance, alive at the same time                  *)
(***************************************************************************)
\* the instance is filled between the steps of the traversals: each push, on
\* either end, brings the count it makes, so that no two contents are alike
MaxTwoLen == MaxIterLen + 1

CA_uses ==
    {<<Ok(CA_pushl1(Self, cnt + 1)), <<cnt + 1>> \o ref>>,
     <<Ok(CA_pushr1(Self, cnt + 1)), ref \o <<cnt + 1>> >>}

CAF_uses ==
    {<<CAF_pushl(Self, cnt + 1), <<cnt + 1>> \o ref>>,
     <<CAF_pushr(Self, cnt + 1), ref \o <<cnt + 1>> >>}

Use(k, outcomes) ==
    /\ kind = k
    /\ \E o \in outcomes :
          /\ o[1].err = NoError
          /\ o[1].b.cnt <= MaxTwoLen
          /\ data' = o[1].b.data
          /\ cnt' = o[1].b.cnt
          /\ cap' = o[1].b.cap
          /\ front' = o[1].b.front
          /\ rear' = o[1].b.rear
          /\ ref' = o[2]
    /\ seen' = [seen EXCEPT !.during = @ \/ gen.pc = "loop"]
    /\ UNCHANGED <<kind, pre, ret, gen, gen2, grown, twin>>

CA_use_step == Use("CA", CA_uses)

CAF_use_step == Use("CAF", CAF_uses)

NextTwo ==
    \/ CA_iter_step
    \/ CA_reversed_step
    \/ CAF_iter_step
    \/ CAF_reversed_step
    \/ CA_iter_next_step
    \/ CA_reversed_next_step
    \/ CAF_iter_next_step
    \/ CAF_reversed_next_step
    \/ CA_iter2_step
    \/ CA_reversed2_step
    \/ CAF_iter2_step
    \/ CAF_reversed2_step
    \/ CA_iter2_next_step
    \/ CA_reversed2_next_step
    \/ CAF_iter2_next_step
    \/ CAF_reversed2_next_step
    \/ CA_use_step
    \/ CAF_use_step

SpecTwo == InitIter /\ [][NextTwo]_vars

(***************************************************************************)
(* A CA under pushes, pops, empty(), compaction and rebuilds, with the     *)
(* pushes counted from one growth to the next                              *)
(***************************************************************************)
MaxGrowLen == 7    \* pushes are issued while the count is below this

GrowValues == {1}

\* from: the capacity the last growth started from;  pushes: the pushes executed
\* since, counted up to that capacity;  gap: the pushes from the growth before to
\* the last one, that one included.  A growth starts the count again, and resize()
\* or a rebuild ends it
Counted(op, b) ==
    CASE op \in {"resize", "delitem", "setitem_slice"} -> NoGrowth
      [] op \in {"pushl", "pushr"} /\ b.cap # cap ->
             [from |-> cap, pushes |-> 0,
              gap |-> IF grown.from # 0 THEN grown.pushes + 1 ELSE 0]
      [] op \in {"pushl", "pushr"} /\ b.cap = cap /\ grown.from # 0 ->
             [grown EXCEPT !.pushes = Min(@ + 1, grown.from)]
      [] OTHER -> grown

Work(op, args, r, newref) ==
    /\ pre' = Self
    /\ data' = r.b.data
    /\ cnt' = r.b.cnt
    /\ cap' = r.b.cap
    /\ front' = r.b.front
    /\ rear' = r.b.rear
    /\ ret' = [op |-> op, args |-> args, val |-> r.val, vals |-> r.vals, err |-> r.err,
               msg |-> r.msg, refwas |-> ref, text |-> r.text, new |-> r.new]
    /\ ref' = IF r.err = NoError THEN newref ELSE ref
    /\ grown' = Counted(op, r.b)
    /\ UNCHANGED <<kind, gen, seen, gen2, twin>>

CA_pushl_work ==
    /\ kind = "CA"
    /\ cnt < MaxGrowLen
    /\ \E d \in GrowValues : Work("pushl", <<d>>, Ok(CA_pushl1(Self, d)), <<d>> \o ref)

CA_pushr_work ==
    /\ kind = "CA"
    /\ cnt < MaxGrowLen
    /\ \E d \in GrowValues : Work("pushr", <<d>>, Ok(CA_pushr1(Self, d)), ref \o <<d>>)

CA_popl_work ==
    /\ kind = "CA"
    /\ Work("popl", <<>>, CA_popl(Self), RefDropL(ref, 1))

CA_popr_work ==
    /\ kind = "CA"
    /\ Work("popr", <<>>, CA_popr(Self), RefDropR(ref, 1))

CA_empty_work ==
    /\ kind = "CA"
    /\ Work("empty", <<>>, Ok(CA_empty(Self)), <<>>)

CA_resize_work ==
    /\ kind = "CA"
    /\ Work("resize", <<2>>, Ok(CA_resize(Self, 2)), ref)

CA_delitem_work ==
    /\ kind = "CA"
    /\ cnt > 0
    /\ Work("delitem", <<0>>, CA_delitem(Self, 0), RefDel(ref, 0))

InitGrowth == Init /\ kind = "CA"

NextGrowth ==
    \/ CA_pushl_work
    \/ CA_pushr_work
    \/ CA_popl_work
    \/ CA_popr_work
    \/ CA_empty_work
    \/ CA_resize_work
    \/ CA_delitem_work

SpecGrowth == InitGrowth /\ [][NextGrowth]_vars

(***************************************************************************)
(* Two instances, the second built from the first, and the list objects    *)
(* that are their slot arrays                                              *)
(***************************************************************************)
MaxAliasLen == 2   \* pushes are issued while the count is below this

\* list objects are told apart by where they live; one no instance holds is free
Addresses == 1..3

Alloc(used) == CHOOSE a \in Addresses : a \notin used

\* the instance takes the list it was handed as its slot array
NewData_source_kept(source, fresh) == source

\* the list object that becomes _data of an instance built from the elements held
\* in the list object source: [None] + list(data) + [None], and in CAF
\* ds + [None]*(capacity - count), are new lists
NewData(source, fresh) == fresh

\* b: the fields of the second instance;  how: the way it was built;
\* mine, its: the list objects that are _data of the first and of the second;
\* last: the instance the last write went to;  was: the fields of the other one
\* before that write
Derive(k, how, b) ==
    /\ kind = k
    /\ b.cnt <= MaxAliasLen
    /\ twin' = [b |-> b, was |-> b, how |-> how, last |-> "none", mine |-> twin.mine,
                its |-> NewData(twin.mine, Alloc({twin.mine}))]
    /\ UNCHANGED <<kind, data, cnt, cap, front, rear, ref, pre, ret, gen, seen, gen2,
                   grown>>

CA_slice_derive ==
    \E sl \in SliceArgs : Derive("CA", "slice", CA_getitem_slice(Self, sl[1], sl[2]))

CA_map_derive == Derive("CA", "map", CA_map(Self, "to_none").new.b)

CA_init_derive == Derive("CA", "init", CA_init(CA_list(Self)))

CAF_map_derive == Derive("CAF", "map", CAF_map(Self, "to_none").new.b)

CAF_init_derive ==
    \E capacity \in {2, cap} : Derive("CAF", "init", CAF_init(CAF_list(Self), capacity))

\* the first instance is built from 1s, and 2s are written into either
AliasOld == 1

AliasNew == 2

\* what a push, a pop or an index assignment would do to the instance b
CA_writes(b) ==
    {Ok(CA_pushl1(b, AliasNew)), Ok(CA_pushr1(b, AliasNew)), CA_popl(b), CA_popr(b)}
    \cup {CA_setitem(b, idx, AliasNew) : idx \in (0 - 1)..0}

CAF_writes(b) ==
    {CAF_pushl(b, AliasNew), CAF_pushr(b, AliasNew), CAF_popl(b), CAF_popr(b)}
    \cup {CAF_setitem(b, idx, AliasNew) : idx \in (0 - 1)..0}

\* a write through one instance shows in the other when both hold the same list
\* object and the write went into it (growth binds _data to a new list)
WriteSelf(k, outcomes) ==
    /\ kind = k
    /\ twin.how # "none"
    /\ \E o \in outcomes :
          /\ o.err = NoError
          /\ o.b.cnt <= MaxAliasLen
          /\ data' = o.b.data
          /\ cnt' = o.b.cnt
          /\ cap' = o.b.cap
          /\ front' = o.b.front
          /\ rear' = o.b.rear
          /\ ref' = List(o.b)
          /\ twin' = IF o.b.cap # cap
                     THEN [twin EXCEPT !.was = twin.b, !.last = "self",
                                       !.mine = Alloc({twin.mine, twin.its})]
                     ELSE [twin EXCEPT !.was = twin.b, !.last = "self",
                                       !.b.data = IF twin.mine = twin.its
                                                     /\ Len(@) = Len(o.b.data)
                                                  THEN o.b.data ELSE @]
    /\ UNCHANGED <<kind, pre, ret, gen, seen, gen2, grown>>

WriteTwin(k, outcomes) ==
    /\ kind = k
    /\ twin.how # "none"
    /\ \E o \in outcomes :
          /\ o.err = NoError
          /\ o.b.cnt <= MaxAliasLen
          /\ twin' = [twin EXCEPT !.b = o.b, !.was = Self, !.last = "twin",
                                  !.its = IF o.b.cap # twin.b.cap
                                          THEN Alloc({twin.mine, twin.its}) ELSE @]
          /\ data' = IF o.b.cap = twin.b.cap /\ twin.mine = twin.its
                        /\ Len(data) = Len(o.b.data)
                     THEN o.b.data ELSE data
    /\ UNCHANGED <<kind, cnt, cap, front, rear, ref, pre, ret, gen, seen, gen2, grown>>

CA_write_self == WriteSelf("CA", CA_writes(Self))

CAF_write_self == WriteSelf("CAF", CAF_writes(Self))

CA_write_twin == WriteTwin("CA", CA_writes(twin.b))

CAF_write_twin == WriteTwin("CAF", CAF_writes(twin.b))

InitAlias == Init /\ cnt <= MaxAliasLen /\ \A i \in 1..Len(ref) : ref[i] = AliasOld

NextAlias ==
    \/ CA_slice_derive
    \/ CA_map_derive
    \/ CA_init_derive
    \/ CAF_map_derive
    \/ CAF_init_derive
    \/ CA_write_self
    \/ CAF_write_self
    \/ CA_write_twin
    \/ CAF_write_twin

SpecAlias == InitAlias /\ [][NextAlias]_vars

(***************************************************************************)
(* A CA under pushes of several arguments and pops                         *)
(***************************************************************************)
MaxArgs == 3       \* most arguments handed to one pushl / pushr

ManyArgs == SeqsUpTo(IterValues, MaxArgs)

CA_pushl_args_step ==
    /\ Ready("CA")
    /\ cnt < MaxLen
    /\ \E ds \in ManyArgs : Call("pushl", ds, Ok(CA_pushl(Self, ds)), Reverse(ds) \o ref)

CA_pushr_args_step ==
    /\ Ready("CA")
    /\ cnt < MaxLen
    /\ \E ds \in ManyArgs : Call("pushr", ds, Ok(CA_pushr(Self, ds)), ref \o ds)

InitPush == Init /\ kind = "CA"

NextPush ==
    \/ CA_pushl_args_step
    \/ CA_pushr_args_step
    \/ CA_popl_step
    \/ CA_popr_step
    \/ CallerContinues

SpecPush == InitPush /\ [][NextPush]_vars

(***************************************************************************)
(* The single-file CA under its callers                                    *)
(***************************************************************************)
\* what the callers of the single-file CA push (None comes from the empty slots)
FileValues == {1, 2}

\* pushes are issued while they leave the count at or below this
MaxFileLen == MaxInit + 1

\* the arguments of pushl(*ds) / pushr(*ds)
PushArgs == {<<d>> : d \in FileValues} \cup {<<1, 2>>}

CAfile_pushl_step ==
    /\ Ready("CAfile")
    /\ \E ds \in PushArgs :
          /\ cnt + Len(ds) <= MaxFileLen
          /\ Call("pushl", ds, Ok(CAfile_pushl(Self, ds)), Reverse(ds) \o ref)

CAfile_pushr_step ==
    /\ Ready("CAfile")
    /\ \E ds \in PushArgs :
          /\ cnt + Len(ds) <= MaxFileLen
          /\ Call("pushr", ds, Ok(CAfile_pushr(Self, ds)), ref \o ds)

CAfile_popl_step ==
    /\ Ready("CAfile")
    /\ Call("popl", <<>>, CAfile_popl(Self), RefDropL(ref, 1))

CAfile_popr_step ==
    /\ Ready("CAfile")
    /\ Call("popr", <<>>, CAfile_popr(Self), RefDropR(ref, 1))

CAfile_empty_step ==
    /\ Ready("CAfile")
    /\ Call("empty", <<>>, Ok(CAfile_empty(Self)), <<>>)

CAfile_len_step ==
    /\ Ready("CAfile")
    /\ Call("len", <<>>, Returns(Self, CAfile_len(Self)), ref)

CAfile_list_step ==
    /\ Ready("CAfile")
    /\ Call("list", <<>>, CAfile_list(Self), ref)

InitFile ==
    \E ds \in SeqsUpTo(FileValues, MaxInit) :
        Constructed("CAfile", CAfile_init(ds), ds, <<>>)

NextFile ==
    \/ CallerContinues
    \/ CAfile_pushl_step
    \/ CAfile_pushr_step
    \/ CAfile_popl_step
    \/ CAfile_popr_step
    \/ CAfile_empty_step
    \/ CAfile_len_step
    \/ CAfile_list_step

SpecFile == InitFile /\ [][NextFile]_vars

(***************************************************************************)
(* Views used by the properties                                            *)
(***************************************************************************)
GetItem(b, idx) == IF kind = "CA" THEN CA_getitem(b, idx) ELSE CAF_getitem(b, idx)

Wrapped(b) == b.cnt > 0 /\ b.front > b.rear

Pushes == {"pushl", "pushr"}

Pops == {"popl", "popr"}

(***************************************************************************)
(* C1: an auto-resizing CA under pushl, pushr, popl and popr behaves like  *)
(* the reference double-ended sequence given the same operations: its      *)
(* length is the reference length, iterating it yields the reference       *)
(* sequence left to right, and every pop returns what the reference pops   *)
(* (wrapped layouts and growth included).                                  *)
(***************************************************************************)
C1_CA_refines_deque ==
    kind = "CA" =>
        /\ cnt = Len(ref)
        /\ CA_list(Self) = ref
        /\ (ret.op = "popl" /\ ret.refwas # <<>>) =>
               (ret.err = NoError /\ ret.val = Head(ret.refwas))
        /\ (ret.op = "popr" /\ ret.refwas # <<>>) =>
               (ret.err = NoError /\ ret.val = ret.refwas[Len(ret.refwas)])

\* a pop from a wrapped CA that has grown
C1_witness ==
    /\ kind = "CA"
    /\ ret.op = "popr"
    /\ ret.err = NoError
    /\ Wrapped(pre)
    /\ pre.cap = 6
    /\ pre.cnt >= 3

(***************************************************************************)
(* C2: a fixed-capacity CAF under pushl, pushr, popl, popr, popld and      *)
(* poprt, no push being attempted while full, holds the content of the     *)
(* reference double-ended sequence and pops the values the reference pops  *)
(* (wrapped layouts included).                                             *)
(***************************************************************************)
C2_CAF_refines_deque ==
    kind = "CAF" =>
        /\ CAF_list(Self) = ref
        /\ (ret.op \in {"popl", "popld"} /\ ret.refwas # <<>>) =>
               (ret.err = NoError /\ ret.val = Head(ret.refwas))
        /\ (ret.op = "popr" /\ ret.refwas # <<>>) =>
               (ret.err = NoError /\ ret.val = ret.refwas[Len(ret.refwas)])
        /\ (ret.op = "popld" /\ ret.refwas = <<>>) =>
               (ret.err = NoError /\ ret.val = Default)
        /\ ret.op = "poprt" =>
               (ret.err = NoError /\ ret.vals = RefTakeR(ret.refwas, ret.args[1]))

\* a bulk pop of two or more elements from a wrapped CAF
C2_witness ==
    /\ kind = "CAF"
    /\ ret.op = "poprt"
    /\ Wrapped(pre)
    /\ Len(ret.vals) >= 2
    /\ cnt >= 1

(***************************************************************************)
(* C3: pushl / pushr on a full CAF raise ValueError and leave count,       *)
(* front, rear, capacity and every slot unchanged; a push on a CAF that    *)
(* is not full never fails.                                                *)
(***************************************************************************)
C3_CAF_full_push_rejected ==
    (kind = "CAF" /\ ret.op \in Pushes) =>
        IF pre.cnt = pre.cap
        THEN ret.err = ValueError /\ Self = pre
        ELSE ret.err = NoError /\ cnt = pre.cnt + 1

\* a push rejected by a full, wrapped CAF
C3_witness ==
    /\ kind = "CAF"
    /\ ret.op = "pushl"
    /\ ret.err = ValueError
    /\ pre.cnt = pre.cap
    /\ pre.cap >= 3
    /\ Wrapped(pre)

(***************************************************************************)
(* C4: popl / popr on an empty buffer of either class raise ValueError     *)
(* and leave count, front, rear, capacity and the slot array as they       *)
(* were; a pop on a non-empty buffer never fails.                          *)
(***************************************************************************)
C4_empty_pop_rejected ==
    ret.op \in Pops =>
        IF pre.cnt = 0
        THEN ret.err = ValueError /\ Self = pre
        ELSE ret.err = NoError /\ cnt = pre.cnt - 1

\* a pop rejected by an emptied CA whose capacity has grown
C4_witness ==
    /\ kind = "CA"
    /\ ret.op = "popr"
    /\ ret.err = ValueError
    /\ pre.cnt = 0
    /\ pre.cap > 4
(***************************************************************************)
(* C5: once a forward or reverse traversal has started producing           *)
(* elements, no mutation of the live buffer between its steps changes      *)
(* what it yields: it yields exactly the logical sequence the buffer held  *)
(* when the copy was taken (reversed for a reverse traversal).             *)
(***************************************************************************)
Expected(l) == IF gen.dir = "iter" THEN l ELSE Reverse(l)

C5_traversal_unaffected ==
    gen.pc \in {"loop", "last", "done"} =>
        /\ gen.out = SubSeq(Expected(seen.atcopy), 1, Len(gen.out))
        /\ gen.pc = "loop" => Len(gen.out) < Len(seen.atcopy)
        /\ gen.pc \in {"last", "done"} => gen.out = Expected(seen.atcopy)

\* a traversal that yielded its last element from a CA mutated and resized in between
C5_witness ==
    /\ kind = "CA"
    /\ gen.pc = "last"
    /\ seen.during
    /\ Len(gen.out) >= 2
    /\ List(Self) # seen.atcopy
    /\ cap # seen.first.cap

(***************************************************************************)
(* C6, as stated: the copy is taken when iter(b) / reversed(b) is called,  *)
(* so the traversal yields the content the buffer had at that call.        *)
(***************************************************************************)
C6_copy_taken_at_call ==
    [][(gen.pc = "created" /\ gen'.pc # "created") => seen'.atcopy = seen.atcall]_vars

(***************************************************************************)
(* C6, amended: iter(b) / reversed(b) captures nothing; capacity, front,   *)
(* rear and the copy of the slot array are captured when the first         *)
(* element is requested, so the traversal yields the content the buffer    *)
(* has at that moment, mutations made since the call included.             *)
(***************************************************************************)
C6_copy_taken_at_first_next ==
    /\ gen.pc = "created" => (gen.current_state = <<>> /\ gen.out = <<>>)
    /\ gen.pc \in {"loop", "last"} =>
           /\ gen.current_state = seen.first.data
           /\ gen.capacity = seen.first.cap
           /\ gen.stop = IF gen.dir = "iter" THEN seen.first.rear ELSE seen.first.front
           /\ gen.out[1] = At(seen.first.data,
                              IF gen.dir = "iter" THEN seen.first.front ELSE seen.first.rear)
    /\ gen.pc \in {"last", "done"} => Len(gen.out) = Len(seen.atcopy)

\* a traversal of a buffer that was mutated between the call and the first next()
C6_witness ==
    /\ gen.pc = "last"
    /\ seen.moved
    /\ Len(gen.out) >= 2

(***************************************************************************)
(* C7, as stated: a push on a full CA doubles the capacity and every       *)
(* element held before is afterwards at the logical index it had before.   *)
(***************************************************************************)
C7_growth_keeps_indices ==
    (kind = "CA" /\ ret.op \in Pushes /\ pre.cnt = pre.cap) =>
        /\ cap = 2 * pre.cap
        /\ \A i \in 0..pre.cnt - 1 :
               CA_getitem(Self, i).val = CA_getitem(pre, i).val

(***************************************************************************)
(* C7, amended: a push on a full CA doubles the capacity; after pushr      *)
(* every element held before is at the logical index it had, after pushl   *)
(* at that index plus one.                                                 *)
(***************************************************************************)
C7_growth_doubles ==
    (kind = "CA" /\ ret.op \in Pushes /\ pre.cnt = pre.cap) =>
        /\ ret.err = NoError
        /\ cap = 2 * pre.cap
        /\ Len(data) = cap
        /\ cnt = pre.cnt + 1
        /\ \A i \in 0..pre.cnt - 1 :
               CA_getitem(Self, i + (IF ret.op = "pushl" THEN 1 ELSE 0)).val
                   = CA_getitem(pre, i).val

\* a pushl on a full CA whose live region wraps
C7_witness ==
    /\ kind = "CA"
    /\ ret.op = "pushl"
    /\ pre.cnt = pre.cap
    /\ pre.cap >= 3
    /\ Wrapped(pre)

(***************************************************************************)
(* C8, as stated: on a CA only resize() ever reduces the capacity.         *)
(***************************************************************************)
C8_only_resize_shrinks ==
    (kind = "CA" /\ ret.op \notin {"init", "idle", "resize"}) => cap >= pre.cap

(***************************************************************************)
(* C8, amended: on a CA the capacity is never reduced by push, pop, bulk   *)
(* pop, defaulted pop, rotate, empty, indexed read or index assignment;    *)
(* besides resize(), slice assignment and index/slice deletion rebuild     *)
(* the buffer with capacity count + 2, which may be less than before.      *)
(***************************************************************************)
Rebuilds == {"setitem_slice", "delitem", "delitem_slice"}

C8_capacity_kept_unless_rebuilt ==
    kind = "CA" =>
        /\ ret.op \notin ({"init", "idle", "resize"} \cup Rebuilds) => cap >= pre.cap
        /\ (ret.op \in Rebuilds /\ ret.err = NoError) => cap = cnt + 2
        /\ ret.err # NoError => cap = pre.cap

\* empty() on a CA that has grown
C8_witness ==
    /\ kind = "CA"
    /\ ret.op = "empty"
    /\ pre.cap >= 6
    /\ pre.cnt >= 2
    /\ cap = pre.cap

(***************************************************************************)
(* C9: the capacity of a CAF and the length of its slot array are those    *)
(* fixed at construction, whatever operations follow, failed ones          *)
(* included.                                                               *)
(***************************************************************************)
C9_CAF_capacity_fixed ==
    kind = "CAF" =>
        /\ cap = pre.cap
        /\ Len(data) = cap
        /\ ret.op = "init" => cap = Max(Max(2, ret.args[1]), cnt)

\* an index deletion on a full CAF whose live region wraps
C9_witness ==
    /\ kind = "CAF"
    /\ ret.op = "delitem"
    /\ ret.err = NoError
    /\ Wrapped(pre)
    /\ pre.cnt = pre.cap
    /\ pre.cap >= 3

(***************************************************************************)
(* C10: in every state of either class, for 0 <= i < count, b[i] is the    *)
(* i-th element of the logical sequence, stored at slot                    *)
(* (front + i) mod capacity, and b[i - count] is the same element.         *)
(***************************************************************************)
C10_index_translation ==
    /\ \A i \in 0..cnt - 1 :
           /\ GetItem(Self, i) = Returns(Self, ref[i + 1])
           /\ GetItem(Self, i - cnt) = GetItem(Self, i)
           /\ ref[i + 1] = At(data, (front + i) % cap)
           /\ ref[i + 1] = List(Self)[i + 1]
    /\ (ret.op = "getitem" /\ ListIdxOk(ref, ret.args[1])) =>
           ret.val = ref[(IF ret.args[1] < 0 THEN Len(ref) + ret.args[1]
                                             ELSE ret.args[1]) + 1]

\* a read through a negative index of a wrapped CA that has grown
C10_witness ==
    /\ kind = "CA"
    /\ ret.op = "getitem"
    /\ ret.err = NoError
    /\ ret.args[1] < 0
    /\ Wrapped(pre)
    /\ pre.cap = 6

(***************************************************************************)
(* C11: b[idx] and b[idx] = v with idx outside [-count, count) raise       *)
(* IndexError, with the empty-buffer text when count is 0 and the          *)
(* out-of-bounds text otherwise, and leave every field as it was; with     *)
(* idx inside [-count, count) they never fail.                             *)
(***************************************************************************)
IndexOps == {"getitem", "setitem"}

C11_index_errors ==
    ret.op \in IndexOps =>
        IF (0 - pre.cnt) <= ret.args[1] /\ ret.args[1] < pre.cnt
        THEN ret.err = NoError
        ELSE /\ ret.err = IndexError
             /\ Self = pre
             /\ ref = ret.refwas
             /\ IF pre.cnt = 0
                THEN /\ Len(ret.msg) = 1
                     /\ ret.msg = IF ret.op = "getitem" THEN EmptyGet(kind)
                                                        ELSE EmptySet(kind)
                ELSE /\ Len(ret.msg) = 9
                     /\ ret.msg = OutOfBounds(ret.args[1], pre.cnt,
                                              IF ret.op = "getitem" THEN "getting"
                                                                    ELSE "setting",
                                              kind)

\* an assignment one past the right end of a wrapped CAF
C11_witness ==
    /\ kind = "CAF"
    /\ ret.op = "setitem"
    /\ ret.err = IndexError
    /\ ret.args[1] = pre.cnt
    /\ pre.cnt >= 2
    /\ Wrapped(pre)

(***************************************************************************)
(* C12: rotl(n) with n >= 0 on a buffer holding two or more elements moves *)
(* the first n mod count elements to the right end, their order kept;      *)
(* rotr(n) moves the last n mod count elements to the left end; with       *)
(* fewer than two elements both leave every field as it was.               *)
(***************************************************************************)
Rotations == {"rotl", "rotr"}

\* the first k elements of l moved behind the others
MovedRight(l, k) == SubSeq(l, k + 1, Len(l)) \o SubSeq(l, 1, k)

\* the last k elements of l moved before the others
MovedLeft(l, k) == SubSeq(l, Len(l) - k + 1, Len(l)) \o SubSeq(l, 1, Len(l) - k)

C12_rotation_moves_ends ==
    (ret.op \in Rotations /\ ret.args[1] >= 0) =>
        IF pre.cnt < 2
        THEN Self = pre
        ELSE List(Self) = IF ret.op = "rotl"
                          THEN MovedRight(List(pre), ret.args[1] % pre.cnt)
                          ELSE MovedLeft(List(pre), ret.args[1] % pre.cnt)

\* three right rotations of a wrapped CA holding two different elements
C12_witness ==
    /\ kind = "CA"
    /\ ret.op = "rotr"
    /\ ret.args[1] = 3
    /\ pre.cnt = 2
    /\ Wrapped(pre)
    /\ List(pre)[1] # List(pre)[2]
    /\ List(Self) = <<List(pre)[2], List(pre)[1]>>

(***************************************************************************)
(* C13: rotl and rotr never fail and never change the count or the         *)
(* capacity, whatever n and whatever the state: a full CA does not grow    *)
(* and a full CAF does not raise the capacity-exceeded ValueError.         *)
(***************************************************************************)
C13_rotation_keeps_size ==
    ret.op \in Rotations =>
        /\ ret.err = NoError
        /\ cnt = pre.cnt
        /\ cap = pre.cap
        /\ Len(data) = Len(pre.data)

\* two left rotations of a full CAF of three or more slots
C13_witness ==
    /\ kind = "CAF"
    /\ ret.op = "rotl"
    /\ ret.args[1] >= 2
    /\ pre.cnt = pre.cap
    /\ pre.cap >= 3
    /\ List(Self) # List(pre)

(***************************************************************************)
(* C14: poplt(max) / poprt(max) never fail; they return min(max, count)    *)
(* elements (none when max <= 0) in the order of removal, leftmost first   *)
(* for poplt and rightmost first for poprt, and the buffer is left with    *)
(* the other elements in their order.                                      *)
(***************************************************************************)
BulkPops == {"poplt", "poprt"}

C14_bulk_pop ==
    ret.op \in BulkPops =>
        /\ ret.err = NoError
        /\ Len(ret.vals) = Min(Max(ret.args[1], 0), pre.cnt)
        /\ cnt = pre.cnt - Len(ret.vals)
        /\ IF ret.op = "poplt"
           THEN /\ ret.vals = SubSeq(List(pre), 1, Len(ret.vals))
                /\ List(Self) = SubSeq(List(pre), Len(ret.vals) + 1, pre.cnt)
           ELSE /\ ret.vals = Reverse(SubSeq(List(pre), cnt + 1, pre.cnt))
                /\ List(Self) = SubSeq(List(pre), 1, cnt)

\* two different elements popped from the left of a wrapped CA that keeps others
C14_witness ==
    /\ kind = "CA"
    /\ ret.op = "poplt"
    /\ Wrapped(pre)
    /\ Len(ret.vals) = 2
    /\ ret.vals[1] # ret.vals[2]
    /\ cnt >= 1

(***************************************************************************)
(* C15: popld(default) / poprd(default) never raise; on an empty buffer    *)
(* they return the default and leave every field as it was, on a           *)
(* non-empty buffer they return and remove the element popl / popr would.  *)
(***************************************************************************)
DefaultedPops == {"popld", "poprd"}

\* what popl() / popr() does to b
Pop(k, op, b) ==
    CASE k = "CA" /\ op = "popld" -> CA_popl(b)
      [] k = "CA" /\ op = "poprd" -> CA_popr(b)
      [] k = "CAF" /\ op = "popld" -> CAF_popl(b)
      [] k = "CAF" /\ op = "poprd" -> CAF_popr(b)

C15_defaulted_pop ==
    ret.op \in DefaultedPops =>
        /\ ret.err = NoError
        /\ IF pre.cnt = 0
           THEN ret.val = ret.args[1] /\ Self = pre
           ELSE /\ ret.val = Pop(kind, ret.op, pre).val
                /\ Self = Pop(kind, ret.op, pre).b
                /\ ret.val = IF ret.op = "popld" THEN List(pre)[1]
                                                 ELSE List(pre)[pre.cnt]
                /\ List(Self) = IF ret.op = "popld"
                                THEN SubSeq(List(pre), 2, pre.cnt)
                                ELSE SubSeq(List(pre), 1, pre.cnt - 1)

\* popld on a CA that was emptied after it had grown
C15_witness ==
    /\ kind = "CA"
    /\ ret.op = "popld"
    /\ pre.cnt = 0
    /\ pre.cap >= 4
    /\ ret.val = Default

(***************************************************************************)
(* C16: resize(m) on a CA in any state, wrapped or not, keeps the logical  *)
(* sequence and the count and leaves the capacity at max(m, count + 2);    *)
(* the slot array is one empty slot, the elements, then empty slots up to  *)
(* the capacity, with front = 1 and rear = count, except that an empty     *)
(* buffer has front = 0 and rear = capacity - 1.                           *)
(***************************************************************************)
C16_resize ==
    (kind = "CA" /\ ret.op = "resize") =>
        /\ ret.err = NoError
        /\ cnt = pre.cnt
        /\ CA_list(Self) = CA_list(pre)
        /\ cap = Max(ret.args[1], pre.cnt + 2)
        /\ data = <<None>> \o CA_list(pre) \o Nones(cap - pre.cnt - 1)
        /\ IF pre.cnt = 0
           THEN front = 0 /\ rear = cap - 1
           ELSE front = 1 /\ rear = pre.cnt

\* a wrapped CA resized to more slots than its compacted size
C16_witness ==
    /\ kind = "CA"
    /\ ret.op = "resize"
    /\ Wrapped(pre)
    /\ ret.args[1] > pre.cnt + 2
    /\ ret.args[1] # pre.cap
    /\ cap = ret.args[1]

(***************************************************************************)
(* C17: compacting twice is compacting once: in every state of a CA,       *)
(* resize() followed by resize() leaves the capacity, front, rear and      *)
(* slot array that one resize() leaves; in particular resize() on a CA     *)
(* that resize() has just compacted changes nothing.                       *)
(***************************************************************************)
C17_compaction_idempotent ==
    kind = "CA" =>
        /\ CA_resize(CA_resize(Self, 2), 2) = CA_resize(Self, 2)
        /\ (ret.op = "resize" /\ ret.args[1] <= 2) => CA_resize(Self, 2) = Self

\* resize() has just compacted a wrapped CA that had spare slots
C17_witness ==
    /\ kind = "CA"
    /\ ret.op = "resize"
    /\ ret.args[1] = 2
    /\ Wrapped(pre)
    /\ pre.cap > pre.cnt + 2
    /\ cap = cnt + 2
    /\ CA_resize(Self, 2) = Self

(***************************************************************************)
(* C18: empty() on a CA or a CAF in any state keeps the capacity and       *)
(* leaves count 0, every slot None, front 0 and rear capacity - 1;         *)
(* iterating then yields nothing, a pop raises ValueError and a push       *)
(* leaves the one pushed element.                                          *)
(***************************************************************************)
\* what the next pushl / pushr / popl / popr does to b
Then(k, op, b, d) ==
    CASE k = "CA" /\ op = "pushl" -> Ok(CA_pushl1(b, d))
      [] k = "CA" /\ op = "pushr" -> Ok(CA_pushr1(b, d))
      [] k = "CA" /\ op = "popl" -> CA_popl(b)
      [] k = "CA" /\ op = "popr" -> CA_popr(b)
      [] k = "CAF" /\ op = "pushl" -> CAF_pushl(b, d)
      [] k = "CAF" /\ op = "pushr" -> CAF_pushr(b, d)
      [] k = "CAF" /\ op = "popl" -> CAF_popl(b)
      [] k = "CAF" /\ op = "popr" -> CAF_popr(b)

ListReversed(b) == IF kind = "CA" THEN CA_list_reversed(b) ELSE CAF_list_reversed(b)

C18_empty ==
    ret.op = "empty" =>
        /\ ret.err = NoError
        /\ cap = pre.cap
        /\ cnt = 0
        /\ data = Nones(pre.cap)
        /\ front = 0
        /\ rear = cap - 1
        /\ List(Self) = <<>>
        /\ ListReversed(Self) = <<>>
        /\ \A op \in Pops : Then(kind, op, Self, None) = Raises(Self, ValueError)
        /\ \A op \in Pushes, d \in Values :
               /\ Then(kind, op, Self, d).err = NoError
               /\ List(Then(kind, op, Self, d).b) = <<d>>
               /\ Then(kind, op, Self, d).b.cap = pre.cap

\* empty() on a full CAF whose live region wraps
C18_witness ==
    /\ kind = "CAF"
    /\ ret.op = "empty"
    /\ Wrapped(pre)
    /\ pre.cnt = pre.cap
    /\ pre.cap >= 3
    /\ \E i \in 1..pre.cap : pre.data[i] # None

(***************************************************************************)
(* C19, as stated: in the single-file CA, empty() on a non-empty buffer    *)
(* keeps the capacity and leaves the buffer empty: len(b) is 0, rear is    *)
(* the slot capacity - 1, list(b) ends with nothing yielded, and after a   *)
(* following pushr(x) list(b) is [x].                                      *)
(***************************************************************************)
C19_file_empty_empties ==
    (kind = "CAfile" /\ ret.op = "empty" /\ pre.cnt > 0) =>
        /\ cap = pre.cap
        /\ CAfile_len(Self) = 0
        /\ rear = cap - 1
        /\ CAfile_list(Self).err = NoError
        /\ CAfile_list(Self).vals = <<>>
        /\ \A x \in FileValues :
               /\ CAfile_list(CAfile_pushr(Self, <<x>>)).err = NoError
               /\ CAfile_list(CAfile_pushr(Self, <<x>>)).vals = <<x>>

\* empty() has returned on a single-file CA that held two elements and wrapped
C19_witness ==
    /\ kind = "CAfile"
    /\ ret.op = "empty"
    /\ ret.err = NoError
    /\ pre.cnt >= 2
    /\ Wrapped(pre)

(***************************************************************************)
(* C20: in every state of a CAF, bool(b) is true exactly when              *)
(* 0 < count < capacity: false when empty, false when full (capacity 2     *)
(* after two pushes, say), and true again after one pop from a full CAF    *)
(* that held two or more elements.                                         *)
(***************************************************************************)
C20_CAF_bool ==
    kind = "CAF" =>
        /\ CAF_bool(Self) <=> (0 < Len(ref) /\ Len(ref) < cap)
        /\ Len(ref) = 0 => ~CAF_bool(Self)
        /\ Len(ref) = cap => ~CAF_bool(Self)
        /\ ret.op = "bool" =>
               /\ ret.err = NoError
               /\ ret.val = IF 0 < pre.cnt /\ pre.cnt < pre.cap THEN True ELSE False
               /\ Self = pre
        /\ (ret.op \in Pops /\ pre.cnt = pre.cap /\ pre.cnt >= 2) =>
               (~CAF_bool(pre) /\ CAF_bool(Self))

\* bool(b) is false on a CAF of capacity 2 filled by two pushes
C20_witness ==
    /\ kind = "CAF"
    /\ ret.op = "bool"
    /\ ret.val = False
    /\ pre.cap = 2
    /\ pre.cnt = 2
    /\ Len(ref) = 2

(***************************************************************************)
(* C29, C30: the shape of every reachable instance                         *)
(***************************************************************************)
\* C29: every reachable CA and CAF has a capacity of at least 2, exactly
\* capacity slots, a count between 0 and the capacity, front and rear inside
\* the slots, and rear = (front + count - 1) mod capacity.
C29_structure ==
    kind \in {"CA", "CAF"} =>
        /\ cap >= 2
        /\ Len(data) = cap
        /\ 0 <= cnt /\ cnt <= cap
        /\ 0 <= front /\ front < cap
        /\ 0 <= rear /\ rear < cap
        /\ rear = (front + cnt - 1) % cap

\* a method has just returned to a wrapped instance that is neither empty nor full
C29_witness ==
    /\ ret.op \notin {"idle", "init"}
    /\ ret.err = NoError
    /\ Wrapped(Self)
    /\ cnt < cap

\* the calls that can take the last element away, or find none
Emptiers == {"popl", "popr", "popld", "poprd", "poplt", "poprt", "empty", "resize",
             "delitem", "delitem_slice", "setitem_slice"}

\* C30: an instance that holds nothing has front = 0 and rear = capacity - 1,
\* however it became empty; one pushl or pushr of one element into it leaves
\* count = 1 and front = rear.
C30_empty_ends ==
    kind \in {"CA", "CAF"} =>
        /\ cnt = 0 => front = 0 /\ rear = cap - 1
        /\ (ret.op \in Pushes /\ Len(ret.args) = 1 /\ pre.cnt = 0)
              => cnt = 1 /\ front = rear

\* the last element was taken from a slot other than 0
C30_witness ==
    /\ ret.op \in Emptiers
    /\ ret.err = NoError
    /\ pre.cnt = 1
    /\ pre.front > 0
    /\ cnt = 0

(***************************************************************************)
(* C27: construction                                                       *)
(***************************************************************************)
\* C27: CA(ds) holds the n elements of ds in their order with capacity n + 2;
\* CAF(ds, c) holds them in their order with capacity max(2, c, n), so that
\* with the default capacity of 2 and n >= 2 it is full from the start.
C27_construction ==
    ret.op = "init" =>
        /\ cnt = Len(ref)
        /\ List(Self) = ref
        /\ kind = "CA" => cap = Len(ref) + 2
        /\ kind = "CAF" => /\ cap = Max(2, Max(ret.args[1], Len(ref)))
                           /\ (ret.args[1] = 2 /\ Len(ref) >= 2) => cnt = cap

\* a CAF built from more elements than the capacity asked for
C27_witness ==
    /\ ret.op = "init"
    /\ kind = "CAF"
    /\ Len(ref) > Max(2, ret.args[1])
    /\ cnt = cap

(***************************************************************************)
(* C26: slice assignment and deletion on CA                                *)
(***************************************************************************)
\* l[start:stop] = vs and del l[start:stop] on a Python list l, start, stop >= 0
Spliced(l, start, stop, vs) ==
    LET lo == Min(start, Len(l))
        hi == Max(lo, Min(stop, Len(l)))
    IN  SubSeq(l, 1, lo) \o vs \o SubSeq(l, hi + 1, Len(l))

\* del l[idx] on a Python list l, for an index it accepts
Without(l, idx) ==
    LET i == IF idx < 0 THEN Len(l) + idx ELSE idx
    IN  SubSeq(l, 1, i) \o SubSeq(l, i + 2, Len(l))

\* the list a rebuilding call of CA leaves, from the list it found
Rebuilt ==
    CASE ret.op = "setitem_slice" ->
            Spliced(ret.refwas, ret.args[1], ret.args[2], SubSeq(ret.args, 3, Len(ret.args)))
      [] ret.op = "delitem_slice" ->
            Spliced(ret.refwas, ret.args[1], ret.args[2], <<>>)
      [] ret.op = "delitem" -> Without(ret.refwas, ret.args[1])
      [] OTHER -> ret.refwas

\* C26: on a CA, assigning to a slice, deleting a slice and deleting an index
\* leave exactly the list the same operation leaves of a Python list, in an
\* instance rebuilt with capacity = new count + 2; assigning a value that is not
\* iterable to a slice, or deleting an index out of range, raises and leaves
\* the instance as it was.
C26_rebuilding ==
    kind = "CA" =>
        /\ (ret.op \in {"setitem_slice", "delitem_slice", "delitem"} /\ ret.err = NoError)
              => /\ CA_list(Self) = Rebuilt
                 /\ cnt = Len(Rebuilt)
                 /\ cap = cnt + 2
        /\ ret.op = "delitem"
              => (ret.err = NoError
                    <=> (0 - Len(ret.refwas) <= ret.args[1] /\ ret.args[1] < Len(ret.refwas)))
        /\ ret.op = "setitem_slice_noniterable" => ret.err = TypeError
        /\ ret.op \in {"setitem_slice_noniterable", "delitem"} /\ ret.err # NoError
              => Self = pre /\ CA_list(Self) = ret.refwas

\* a slice of a wrapped CA was replaced by a longer list
C26_witness ==
    /\ kind = "CA"
    /\ ret.op = "setitem_slice"
    /\ ret.err = NoError
    /\ Wrapped(pre)
    /\ cnt > pre.cnt
    /\ ret.args[2] > ret.args[1]

(***************************************************************************)
(* C21: equality                                                           *)
(***************************************************************************)
\* the logical content of an instance held as an object
ListOf(o) == IF o.cls = "CA" THEN CA_list(o.b) ELSE CAF_list(o.b)

\* C21: b == o is true exactly when o is of b's class, holds as many elements
\* and holds an equal (or the same) element at every logical index, whatever
\* the capacities and the layouts of the two.
C21_equality ==
    ret.op = "eq" =>
        LET o == ret.args[1]
        IN  (ret.val = True)
                <=> /\ o.cls = kind
                    /\ Len(ListOf(o)) = Len(ref)
                    /\ \A i \in 1..Len(ref) : ListOf(o)[i] = ref[i]

\* equal instances, one wrapped and one not, of different capacities
C21_witness ==
    /\ ret.op = "eq"
    /\ ret.val = True
    /\ ret.args[1].id = "other"
    /\ ret.args[1].b.cap # cap
    /\ Wrapped(ret.args[1].b) # Wrapped(Self)
    /\ cnt >= 2

(***************************************************************************)
(* C22, C23: repr                                                          *)
(***************************************************************************)
\* C22: evaluating repr(b), the factory of b's class applied to b's elements in
\* logical order, gives an instance that compares equal to b, both ways, and
\* is another object than b.
C22_repr_round_trip ==
    (ret.op = "repr" /\ kind \in {"CA", "CAF"}) =>
        LET o == Eval(ret.text)
        IN  /\ o.cls = kind
            /\ o.id # Me.id
            /\ ListOf(o) = ref
            /\ kind = "CA" => CA_eq(Me, o) /\ CA_eq(o, Me)
            /\ kind = "CAF" => CAF_eq(Me, o) /\ CAF_eq(o, Me)

\* the repr of a wrapped CAF with room left, rebuilt with another capacity
C22_witness ==
    /\ ret.op = "repr"
    /\ kind = "CAF"
    /\ Wrapped(Self)
    /\ cnt < cap
    /\ Eval(ret.text).b.cap # cap
    /\ Eval(ret.text).b.front # front

\* C23: the repr of a fixed-capacity instance is the tag ca_fix followed by the
\* reprs of its elements in logical order, separated by commas, in
\* parentheses; ca_fix() when it is empty.
C23_repr_tag_ca_fix ==
    (ret.op = "repr" /\ kind = "CAF") =>
        ret.text = <<"ca_fix(">> \o Join(", ", [i \in 1..Len(ref) |-> Repr(ref[i])])
                                 \o <<")">>

\* the repr of a CAF that holds something
C23_witness ==
    /\ ret.op = "repr"
    /\ kind = "CAF"
    /\ cnt > 0
    /\ ret.text[1] = "caf("

(***************************************************************************)
(* C24, C25: the folds and map                                             *)
(***************************************************************************)
\* f(...f(f(s, e0), e1)..., en-1) over the list l
RECURSIVE FoldLeft(_, _, _)
FoldLeft(f, s, l) ==
    IF l = <<>> THEN s ELSE FoldLeft(f, Apply2(f, s, l[1]), SubSeq(l, 2, Len(l)))

\* f(e0, f(e1, ... f(en-1, s))) over the list l
RECURSIVE FoldRight(_, _, _)
FoldRight(f, s, l) ==
    IF l = <<>> THEN s ELSE Apply2(f, l[1], FoldRight(f, s, SubSeq(l, 2, Len(l))))

\* C24: foldl and foldr return the left and the right fold of the logical
\* content from the start item; without a start item (None) they fold the rest
\* from the first (foldl) or the last (foldr) element, and raise ValueError on
\* an empty instance; with a start item an empty instance returns it. The
\* instance is left as it was.
C24_folds ==
    (ret.op \in {"foldl", "foldr"} /\ kind \in {"CA", "CAF"}) =>
        LET f == ret.args[1]
            s == ret.args[2]
            n == Len(ref)
        IN  /\ Self = pre
            /\ ref = ret.refwas
            /\ (n = 0 /\ s = None) => ret.err = ValueError
            /\ (n = 0 /\ s # None) => ret.err = NoError /\ ret.val = s
            /\ n > 0 => ret.err = NoError
            /\ (n > 0 /\ s # None /\ ret.op = "foldl") => ret.val = FoldLeft(f, s, ref)
            /\ (n > 0 /\ s # None /\ ret.op = "foldr") => ret.val = FoldRight(f, s, ref)
            /\ (n > 0 /\ s = None /\ ret.op = "foldl")
                  => ret.val = FoldLeft(f, ref[1], SubSeq(ref, 2, n))
            /\ (n > 0 /\ s = None /\ ret.op = "foldr")
                  => ret.val = FoldRight(f, ref[n], SubSeq(ref, 1, n - 1))

\* a left fold of a wrapped instance whose result differs from the right fold
C24_witness ==
    /\ ret.op = "foldl"
    /\ Wrapped(Self)
    /\ cnt >= 3
    /\ ret.args[2] # None
    /\ ret.val # None
    /\ ret.val # FoldRight(ret.args[1], ret.args[2], ref)

\* C25: map(f) returns a new instance of the same class that holds f of each
\* element in order, of capacity count + 2 for CA and of the capacity of the
\* original for CAF; the original is left as it was.
C25_map ==
    (ret.op = "map" /\ kind \in {"CA", "CAF"}) =>
        /\ ret.err = NoError
        /\ Self = pre
        /\ ref = ret.refwas
        /\ ret.new.cls = kind
        /\ ret.new.id # Me.id
        /\ ListOf(ret.new) = [i \in 1..Len(ref) |-> Apply1(ret.args[1], ref[i])]
        /\ kind = "CA" => ret.new.b.cap = cnt + 2
        /\ kind = "CAF" => ret.new.b.cap = cap

\* a map over a wrapped CAF of more than the default capacity
C25_witness ==
    /\ ret.op = "map"
    /\ kind = "CAF"
    /\ Wrapped(Self)
    /\ cap > 2
    /\ cnt < cap
    /\ ret.args[1] = "affine"

(***************************************************************************)
(* C28: traversals end, each over its own copy                             *)
(***************************************************************************)
\* the elements a suspended traversal has still to yield
Left(g) ==
    IF g.dir = "iter"
    THEN (g.stop - g.position) % g.capacity
    ELSE (g.position - g.stop) % g.capacity

\* the traversal with frame g has yielded, of the content l it took its copy
\* of, all but the Left(g) elements it has still to yield
OnItsWay(g, l) ==
    /\ g.pc = "created" => g.out = <<>>
    /\ g.pc = "loop" => Left(g) > 0 /\ Len(g.out) + Left(g) = Len(l)
    /\ g.pc = "last" => Left(g) = 0 /\ Len(g.out) = Len(l)
    /\ g.pc = "done" => g.out = (IF g.dir = "iter" THEN l ELSE Reverse(l))

\* a next() on the traversal that had frame g and now has frame h yields one
\* more element or ends it
OneStep(g, h) ==
    /\ (g.pc = "created" /\ h # g) => h.pc \in {"loop", "last", "done"}
    /\ (g.pc = "loop" /\ h # g) => /\ h.pc \in {"loop", "last"}
                                   /\ Len(h.out) = Len(g.out) + 1
                                   /\ Left(h) = Left(g) - 1
    /\ (g.pc = "last" /\ h # g) => h.pc = "done" /\ h.out = g.out

GrownLayout(b) ==
    IF b.front <= b.rear
    THEN Buf(b.data \o Nones(b.cap), b.cnt, 2 * b.cap, b.front, b.rear)
    ELSE Buf(Slice(b.data, 0, b.front) \o Nones(b.cap) \o Slice(b.data, b.front, b.cap),
             b.cnt, 2 * b.cap, b.front + b.cap, b.rear)

C31_growth_layout ==
    (kind = "CA" /\ ret.op \in Pushes /\ pre.cnt = pre.cap) =>
        LET g == GrownLayout(pre)
            slot == IF ret.op = "pushl" THEN (g.front - 1) % g.cap
                                        ELSE (g.rear + 1) % g.cap
        IN  /\ CA_list(g) = CA_list(pre)
            /\ g.rear = (g.front + g.cnt - 1) % g.cap
            /\ At(g.data, slot) = None
            /\ data = Put(g.data, slot, ret.args[1])
            /\ cap = g.cap
            /\ cnt = g.cnt + 1
            /\ front = (IF ret.op = "pushl" THEN slot ELSE g.front)
            /\ rear = (IF ret.op = "pushr" THEN slot ELSE g.rear)

\* a pushr on a full CA whose live region wraps: the front has moved up
C31_witness ==
    /\ kind = "CA"
    /\ ret.op = "pushr"
    /\ pre.cnt = pre.cap
    /\ pre.cap >= 3
    /\ pre.front > pre.rear
    /\ front = pre.front + pre.cap
    /\ rear = pre.rear + 1

(***************************************************************************)
(* C32: resize() without a minimum, on a CA in any state, wrapped or not,  *)
(* leaves: for count 0 capacity 2, front 0 and rear 1; for count 1         *)
(* capacity 3 with the element in slot 1 and front = rear = 1; for count   *)
(* 2 or more capacity count + 2 with the elements in logical order in      *)
(* slots 1..count, front 1, rear count, and slots 0 and count + 1 empty.   *)
(***************************************************************************)
NoMinimum == 2

C32_compaction_layout ==
    (kind = "CA" /\ ret.op = "resize" /\ ret.args[1] = NoMinimum) =>
        /\ ret.err = NoError
        /\ cnt = pre.cnt
        /\ Len(data) = cap
        /\ pre.cnt = 0 => (cap = 2 /\ front = 0 /\ rear = 1)
        /\ pre.cnt = 1 =>
               /\ cap = 3
               /\ front = 1
               /\ rear = 1
               /\ At(data, 1) = At(pre.data, pre.front)
        /\ pre.cnt >= 2 =>
               /\ cap = pre.cnt + 2
               /\ front = 1
               /\ rear = pre.cnt
               /\ \A i \in 0..pre.cnt - 1 :
                      At(data, 1 + i) = At(pre.data, (pre.front + i) % pre.cap)
               /\ At(data, 0) = None
               /\ At(data, pre.cnt + 1) = None

\* resize() on a wrapped CA that has grown, with elements on both sides of the gap
C32_witness ==
    /\ kind = "CA"
    /\ ret.op = "resize"
    /\ ret.args[1] = NoMinimum
    /\ pre.front > pre.rear
    /\ pre.cnt >= 3
    /\ pre.cap = 6
    /\ pre.rear >= 1

(***************************************************************************)
(* C33: in every reachable state of a CA or a CAF every slot outside the   *)
(* live region, the count slots from the front on taken mod the capacity,  *)
(* holds None: a pop clears the slot it vacates, and growth, compaction,   *)
(* empty() and the rebuilds bring in only empty slots.                     *)
(***************************************************************************)
Live(b) == {(b.front + k) % b.cap : k \in 0..b.cnt - 1}

C33_dead_slots_empty ==
    kind \in {"CA", "CAF"} =>
        \A i \in (0..cap - 1) \ Live(Self) : At(data, i) = None

\* a pop has just vacated a slot that held a value, in a wrapped buffer
C33_witness ==
    /\ ret.op \in Pops
    /\ ret.err = NoError
    /\ ret.val # None
    /\ Wrapped(pre)
    /\ cnt >= 1
    /\ cnt < cap - 1

(***************************************************************************)
(* C34: an element that is None is an element like any other: whatever     *)
(* pushes and pops came before, a buffer holding None elements counts      *)
(* them, yields them in their positions, returns them when indexed, and a  *)
(* pop from an end where a None element sits returns it and removes it;    *)
(* which slots are live is decided by front and count, never by what a     *)
(* slot holds.                                                             *)
(***************************************************************************)
HasNone(l) == \E i \in 1..Len(l) : l[i] = None

C34_none_is_ordinary ==
    kind \in {"CA", "CAF"} =>
        /\ HasNone(ref) =>
               /\ cnt = Len(ref)
               /\ List(Self) = ref
               /\ \A i \in 0..Len(ref) - 1 :
                      /\ GetItem(Self, i).err = NoError
                      /\ GetItem(Self, i).val = ref[i + 1]
                      /\ GetItem(Self, i - Len(ref)).err = NoError
                      /\ GetItem(Self, i - Len(ref)).val = ref[i + 1]
        /\ (ret.op = "popl" /\ ret.refwas # <<>> /\ Head(ret.refwas) = None) =>
               /\ ret.err = NoError
               /\ ret.val = None
               /\ cnt = pre.cnt - 1
               /\ List(Self) = Tail(ret.refwas)
        /\ (ret.op = "popr" /\ ret.refwas # <<>>
                /\ ret.refwas[Len(ret.refwas)] = None) =>
               /\ ret.err = NoError
               /\ ret.val = None
               /\ cnt = pre.cnt - 1
               /\ List(Self) = SubSeq(ret.refwas, 1, Len(ret.refwas) - 1)

\* a None element popped off the rear of a wrapped buffer that still holds a None
\* element and a value
C34_witness ==
    /\ ret.op = "popr"
    /\ ret.err = NoError
    /\ ret.val = None
    /\ ret.refwas[Len(ret.refwas)] = None
    /\ Wrapped(pre)
    /\ HasNone(ref)
    /\ \E i \in 1..Len(ref) : ref[i] # None
    /\ List(Self) = ref

C36_setitem_frame ==
    (kind \in {"CA", "CAF"} /\ ret.op = "setitem"
         /\ 0 - pre.cnt <= ret.args[1] /\ ret.args[1] < pre.cnt) =>
        LET i == ret.args[1]
            v == ret.args[2]
        IN  /\ ret.err = NoError
            /\ cnt = pre.cnt
            /\ cap = pre.cap
            /\ front = pre.front
            /\ rear = pre.rear
            /\ Len(data) = Len(pre.data)
            /\ Cardinality({s \in 0..cap - 1 : At(data, s) # At(pre.data, s)}) <= 1
            /\ GetItem(Self, i).err = NoError
            /\ GetItem(Self, i).val = v
            /\ \A j \in 0..cnt - 1 :
                   j # i % cnt => GetItem(Self, j).val = GetItem(pre, j).val
            /\ List(Self) = RefSet(ret.refwas, i, v)

\* a negative index assigned on a wrapped, partly filled buffer, changing the value
C36_witness ==
    /\ ret.op = "setitem"
    /\ ret.err = NoError
    /\ ret.args[1] < 0 - 1
    /\ Wrapped(pre)
    /\ pre.cnt < pre.cap
    /\ data # pre.data
    /\ (pre.front + pre.cnt + ret.args[1]) % pre.cap < pre.front

(***************************************************************************)
(* C37: two instances never hold the same list object as their slot array: *)
(* an instance obtained by slicing, by map, or by construction from the    *)
(* elements of another has a slot array of its own, so a later push, pop   *)
(* or index assignment on either leaves the fields, and so the logical     *)
(* sequence, of the other as they were.                                    *)
(***************************************************************************)
C37_no_shared_slots ==
    twin.how # "none" =>
        /\ twin.mine # twin.its
        /\ twin.last = "self" => (twin.b = twin.was /\ List(twin.b) = List(twin.was))
        /\ twin.last = "twin" => (Self = twin.was /\ List(Self) = ref)

\* a slice of a CA that has since been written to, while the CA kept its content
C37_witness ==
    /\ kind = "CA"
    /\ twin.how = "slice"
    /\ twin.last = "twin"
    /\ cnt = 2
    /\ twin.b.cnt = 2
    /\ twin.b.cap = cap
    /\ twin.b.data # data
    /\ twin.b.front = front

(***************************************************************************)
(* C38: pushl and pushr of a CA with several arguments push them one at a  *)
(* time in the order given, growing when full between two of them:         *)
(* pushl(a, b, c) leaves c leftmost, so the content starts with c, b, a,   *)
(* and pushr(a, b, c) leaves c rightmost, so the content ends with a, b,   *)
(* c; the instance is as the same pushes with one argument each leave it.  *)
(***************************************************************************)
RECURSIVE OneByOne(_, _, _)
OneByOne(op, b, ds) ==
    IF ds = <<>>
    THEN b
    ELSE OneByOne(op, IF op = "pushl" THEN CA_pushl1(b, Head(ds))
                                      ELSE CA_pushr1(b, Head(ds)),
                  Tail(ds))

C38_pushes_in_argument_order ==
    (kind = "CA" /\ ret.op \in Pushes) =>
        /\ ret.err = NoError
        /\ cnt = pre.cnt + Len(ret.args)
        /\ ret.op = "pushl" => CA_list(Self) = Reverse(ret.args) \o CA_list(pre)
        /\ ret.op = "pushr" => CA_list(Self) = CA_list(pre) \o ret.args
        /\ Self = OneByOne(ret.op, pre, ret.args)

\* three arguments pushed on the left of a wrapped CA with one free slot: the
\* slot array is doubled before the second
C38_witness ==
    /\ kind = "CA"
    /\ ret.op = "pushl"
    /\ Len(ret.args) = 3
    /\ ret.args[1] # ret.args[3]
    /\ Wrapped(pre)
    /\ pre.cnt = pre.cap - 1
    /\ cap = 2 * pre.cap

(***************************************************************************)
(* C39: in every reachable state of a CA or a CAF, what reversed(b) yields *)
(* is what iter(b) yields in that state, last to first; both yield count   *)
(* elements, on wrapped layouts and single-element buffers too.            *)
(***************************************************************************)
C39_reversed_is_iter_reversed ==
    kind \in {"CA", "CAF"} =>
        /\ Len(List(Self)) = cnt
        /\ Len(ListReversed(Self)) = cnt
        /\ \A i \in 1..cnt : ListReversed(Self)[i] = List(Self)[cnt + 1 - i]

\* a wrapped buffer whose content read backwards differs from it read forwards
C39_witness ==
    /\ front > rear
    /\ cnt >= 3
    /\ cnt < cap
    /\ List(Self)[1] # List(Self)[cnt]
    /\ ListReversed(Self)[1] = List(Self)[cnt]
====
